---- MODULE Spec2Model ----
(***************************************************************************)
(* Searchive backend: tag deduplication engine.                            *)
(*                                                                         *)
(* The model covers TagService / TagRepository / DocumentTagRepository     *)
(* (src/domains/tags), the tag part of ElasticsearchClient (src/core) and  *)
(* DocumentService.upload_document (src/domains/documents).                *)
(*                                                                         *)
(* A string is a sequence of one-character strings, so that strip, lower,  *)
(* title and the regular expression of normalize_tag_name are computed     *)
(* character by character.  A Hangul syllable is one character, written    *)
(* as its romanisation in angle brackets ("<i>" for U+C774).               *)
(* An embedding is a two-dimensional integer vector with non-negative      *)
(* components; cosine comparisons are done exactly on squares.             *)
(***************************************************************************)
EXTENDS Integers, Sequences, FiniteSets, TLC

----------------------------------------------------------------------------
(* Characters and Python string methods                                     *)

UpperCase == <<"A","B","C","D","E","F","G","H","I","J","K","L","M",
               "N","O","P","Q","R","S","T","U","V","W","X","Y","Z">>

LowerCase == <<"a","b","c","d","e","f","g","h","i","j","k","l","m",
               "n","o","p","q","r","s","t","u","v","w","x","y","z">>

Digits == {"0","1","2","3","4","5","6","7","8","9"}

Range(f) == {f[i] : i \in DOMAIN f}

isupper(c) == c \in Range(UpperCase)

islower(c) == c \in Range(LowerCase)

isalpha(c) == isupper(c) \/ islower(c)

isspace(c) == c = " "

\* U+212A KELVIN SIGN: not matched by [a-zA-Z], lower-cased to "k"
KelvinSign == "<K>"

\* str.lower() on one character
lowerChar(c) ==
    IF isupper(c) THEN LowerCase[CHOOSE i \in 1..26 : UpperCase[i] = c]
    ELSE IF c = KelvinSign THEN "k" ELSE c

\* str.upper() on one character
upperChar(c) ==
    IF islower(c) THEN UpperCase[CHOOSE i \in 1..26 : LowerCase[i] = c] ELSE c

\* str.lower()
lower(s) == [i \in 1..Len(s) |-> lowerChar(s[i])]

\* str.strip(): drop leading and trailing whitespace
RECURSIVE lstrip(_)
lstrip(s) == IF s /= <<>> /\ isspace(Head(s)) THEN lstrip(Tail(s)) ELSE s

RECURSIVE rstrip(_)
rstrip(s) ==
    IF s /= <<>> /\ isspace(s[Len(s)]) THEN rstrip(SubSeq(s, 1, Len(s) - 1)) ELSE s

strip(s) == rstrip(lstrip(s))

\* str.title(): a letter that follows a non-letter (or starts the string) is
\* upper-cased, every other letter is lower-cased
title(s) ==
    [i \in 1..Len(s) |->
        IF i = 1 \/ ~isalpha(s[i - 1]) THEN upperChar(s[i]) ELSE lowerChar(s[i])]

\* str.isdigit(): non-empty and digits only
isdigit(s) == s /= <<>> /\ \A i \in 1..Len(s) : s[i] \in Digits

\* the characters of a string, concatenated into one TLA+ string
RECURSIVE Join(_)
Join(s) == IF s = <<>> THEN "" ELSE Head(s) \o Join(Tail(s))

----------------------------------------------------------------------------
(* src/core/keyword_extraction.py: stopwords                                *)

ENGLISH_STOPWORDS == {
    "a", "an", "the",
    "and", "or", "but", "nor", "so", "for", "yet",
    "of", "in", "on", "at", "to", "by", "with", "from", "up", "about", "into",
    "through", "during", "before", "after", "above", "below", "between", "under",
    "over", "out", "off", "down", "upon", "across", "against", "along", "among",
    "around", "as", "behind", "beside", "besides", "beyond", "inside", "outside",
    "near", "next", "onto", "per", "since", "than", "till", "toward", "towards",
    "underneath", "until", "via", "within", "without",
    "i", "you", "he", "she", "it", "we", "they", "me", "him", "her", "us", "them",
    "my", "your", "his", "its", "our", "their", "mine", "yours", "hers", "ours", "theirs",
    "this", "that", "these", "those", "who", "whom", "whose", "which", "what",
    "is", "am", "are", "was", "were", "be", "been", "being",
    "can", "could", "may", "might", "must", "shall", "should", "will", "would",
    "do", "does", "did", "doing", "done", "have", "has", "had", "having",
    "if", "then", "else", "when", "where", "why", "how", "all", "any", "both",
    "each", "few", "more", "most", "other", "some", "such", "no", "not", "only",
    "own", "same", "too", "very", "just", "also", "etc", "eg", "ie", "vs" }

KOREAN_STOPWORDS == {
    "<i>", "<ga>", "<eul>", "<reul>", "<eun>", "<neun>", "<e>", "<e><seo>",
    "<ro>", "<eu><ro>", "<ui>", "<wa>", "<gwa>",
    "<do>", "<man>", "<kka><ji>", "<bu><teo>", "<han><te>", "<kke>", "<bo><da>",
    "<cheo><reom>", "<gat><i>", "<ma><da>", "<jo><cha>",
    "<e><ge>", "<han><te><seo>", "<kke><seo>", "<e><ge><seo>", "<ro><bu><teo>",
    "<eu><ro><bu><teo>", "<ra><go>", "<i><ra><go>",
    "<ra><neun>", "<i><ra><neun>", "<ra><myeo>", "<i><ra><myeo>", "<ra><myeon>",
    "<i><ra><myeon>",
    "<geu><ri><go>", "<tto><neun>", "<ha><ji><man>", "<geu><reo><na>",
    "<geu><rae><seo>", "<geu><reo><meu><ro>", "<tta><ra><seo>", "<jeuk>", "<tto><han>",
    "<jeo>", "<na>", "<neo>", "<u><ri>", "<geu>", "<i><geot>", "<geu><geot>",
    "<jeo><geot>", "<yeo><gi>", "<geo><gi>", "<jeo><gi>",
    "<i><reon>", "<geu><reon>", "<jeo><reon>", "<i><reoh><ge>", "<geu><reoh><ge>",
    "<jeo><reoh><ge>",
    "<deung>", "<mit>", "<tto>", "<deo>", "<deol>", "<jom>", "<yak>", "<hok><eun>",
    "<ye><reul>", "<deul><eo>", "<tong><hae>",
    "<geot>", "<su>", "<ttae>", "<jeom>", "<ba>", "<jung>", "<gan>", "<nae>", "<oe>" }

MIN_KEYWORD_LENGTH == 2

\* an is_stopword that compares the keyword in its own casing
is_stopword_cased(keyword) ==
    LET keyword_lower == strip(keyword) IN
        \/ Len(keyword_lower) < MIN_KEYWORD_LENGTH
        \/ Join(keyword_lower) \in ENGLISH_STOPWORDS
        \/ Join(keyword_lower) \in KOREAN_STOPWORDS
        \/ isdigit(keyword_lower)

is_stopword(keyword) ==
    LET keyword_lower == strip(lower(keyword)) IN
        \/ Len(keyword_lower) < MIN_KEYWORD_LENGTH
        \/ Join(keyword_lower) \in ENGLISH_STOPWORDS
        \/ Join(keyword_lower) \in KOREAN_STOPWORDS
        \/ isdigit(keyword_lower)

\* the Hangul syllables (U+AC00 to U+D7A3) that occur in this model
Hangul ==
    {"<i>", "<ga>", "<eul>", "<reul>", "<eun>", "<neun>", "<e>", "<seo>", "<ro>",
     "<eu>", "<ui>", "<wa>", "<gwa>", "<do>", "<man>", "<ul>", "<u>", "<ri>",
     "<ha>", "<ji>", "<na>"}

\* in the order of the list: a one-syllable particle may come before a
\* two-syllable particle that ends with it
KOREAN_PARTICLES ==
    << <<"<i>">>, <<"<ga>">>, <<"<eul>">>, <<"<reul>">>, <<"<eun>">>, <<"<neun>">>,
       <<"<e>">>, <<"<e>", "<seo>">>, <<"<ro>">>, <<"<eu>", "<ro>">>, <<"<ui>">>,
       <<"<wa>">>, <<"<gwa>">>, <<"<do>">>, <<"<man>">> >>

\* str.endswith
endswith(s, suffix) ==
    /\ Len(suffix) <= Len(s)
    /\ SubSeq(s, Len(s) - Len(suffix) + 1, Len(s)) = suffix

\* remove_particle: the first particle of the list that ends the keyword and
\* leaves at least MIN_KEYWORD_LENGTH characters is cut off
remove_particle(keyword) ==
    LET kw == strip(keyword)
        matching == {i \in DOMAIN KOREAN_PARTICLES :
                        /\ endswith(kw, KOREAN_PARTICLES[i])
                        /\ Len(kw) > Len(KOREAN_PARTICLES[i]) + 1
                        /\ Len(kw) - Len(KOREAN_PARTICLES[i]) >= MIN_KEYWORD_LENGTH}
        first == CHOOSE i \in matching : \A j \in matching : i <= j
    IN  IF (\E k \in DOMAIN kw : kw[k] \in Hangul) /\ matching /= {}
        THEN SubSeq(kw, 1, Len(kw) - Len(KOREAN_PARTICLES[first]))
        ELSE kw

\* str.split(): the maximal runs of non-whitespace characters
RECURSIVE split(_)
split(s) ==
    LET t == lstrip(s)
        n == IF \E i \in DOMAIN t : isspace(t[i])
             THEN (CHOOSE i \in DOMAIN t :
                       isspace(t[i]) /\ \A j \in 1..(i - 1) : ~isspace(t[j])) - 1
             ELSE Len(t)
    IN  IF t = <<>> THEN <<>>
        ELSE <<SubSeq(t, 1, n)>> \o split(SubSeq(t, n + 1, Len(t)))

\* a filter that tests the tokens as they come, without remove_particle
RECURSIVE filter_stopwords_unstripped(_)
filter_stopwords_unstripped(keywords) ==
    IF keywords = <<>> THEN <<>>
    ELSE LET kw_stripped == strip(Head(keywords))
             words == split(kw_stripped)
             keep == IF \A i \in DOMAIN kw_stripped : kw_stripped[i] /= " "
                     THEN ~is_stopword(kw_stripped)
                     ELSE ~\A i \in DOMAIN words : is_stopword(words[i])
         IN  (IF kw_stripped /= <<>> /\ keep THEN <<kw_stripped>> ELSE <<>>)
                 \o filter_stopwords_unstripped(Tail(keywords))

RECURSIVE filter_stopwords(_)
filter_stopwords(keywords) ==
    IF keywords = <<>> THEN <<>>
    ELSE LET kw_stripped == strip(Head(keywords))
             kw_cleaned == remove_particle(kw_stripped)
             words == split(kw_cleaned)
             keep == IF \A i \in DOMAIN kw_cleaned : kw_cleaned[i] /= " "
                     THEN ~is_stopword(kw_cleaned)
                     ELSE ~\A i \in DOMAIN words : is_stopword(words[i])
         IN  (IF kw_stripped /= <<>> /\ keep THEN <<kw_cleaned>> ELSE <<>>)
                 \o filter_stopwords(Tail(keywords))

----------------------------------------------------------------------------
(* src/domains/tags/service.py: TagService.normalize_tag_name               *)

\* re.match(r'^[a-zA-Z\s\-]+$', name)
is_english(name) ==
    /\ name /= <<>>
    /\ \A i \in 1..Len(name) : isalpha(name[i]) \/ isspace(name[i]) \/ name[i] = "-"

normalize_tag_name(raw) ==
    LET name == strip(raw) IN
        IF is_english(name) THEN title(name) ELSE lower(name)

----------------------------------------------------------------------------
(* Embeddings and cosine similarity                                         *)

\* Names used as inputs.  Their embeddings make "Ai"/"Ml", "Ml"/"Dl",
\* "Ml"/"Db" and "Dl"/"Db" similar (cosine 12/13, 63/65, 56/65, 24/25),
\* "Ai"/"Dl" exactly on the threshold (cosine 4/5) and "Ai"/"Db" dissimilar
\* (cosine 3/5).
Ai == <<"A", "i">>

Ml == <<"M", "l">>

Dl == <<"D", "l">>

Db == <<"D", "b">>

Vocabulary == {Ai, Ml, Dl, Db}

\* EmbeddingService.encode: a deterministic map from text to vector
encode(text) ==
    LET key == Join(lower(strip(text))) IN
        CASE key = "ai" -> <<1, 0>>
          [] key = "ml" -> <<12, 5>>
          [] key = "dl" -> <<4, 3>>
          [] key = "db" -> <<3, 4>>
          [] OTHER -> <<0, 1>>

Dot(a, b) == a[1] * b[1] + a[2] * b[2]

\* similarity thresholds are given in tenths: 8 stands for 0.8
similarity_threshold == 8

\* cosine(a, b) >= threshold / 10, on vectors with non-negative components
ScoreAtLeast(a, b, threshold) ==
    100 * Dot(a, b) * Dot(a, b) >= threshold * threshold * Dot(a, a) * Dot(b, b)

\* cosine(a, b) > threshold / 10: cosine distance strictly below 1 - threshold
ScoreAbove(a, b, threshold) ==
    100 * Dot(a, b) * Dot(a, b) > threshold * threshold * Dot(a, a) * Dot(b, b)

\* cosine(q, a) >= cosine(q, b)
AtLeastAsClose(q, a, b) ==
    Dot(q, a) * Dot(q, a) * Dot(b, b) >= Dot(q, b) * Dot(q, b) * Dot(a, a)

----------------------------------------------------------------------------
(* State                                                                    *)

\* one request-scoped database session per concurrent request
Sessions == {1, 2}

\* longest keyword list handed to attach_tags_to_document
MaxKeywords == 2

\* get_or_create_tag calls made over one session
MaxCalls == 2

\* failures of the environment (Elasticsearch, MinIO, text extraction, the
\* database connection) over one run
MaxFaults == 1

Committed == 0

None == [tag_id |-> 0]

VARIABLES
    tagRows,        \* table tags: rows [tag_id, name, embedding, txn]
    next_tag_id,    \* the tag_id sequence of the table
    documentRows,   \* table documents: rows [document_id, txn]
    documentTagRows,\* table document_tags: rows [document_id, tag_id, txn]
    tagIndex,       \* Elasticsearch index "tags": [tag_id, name, embedding]
    documentIndex,  \* Elasticsearch index "documents": the document ids
    termVectors,    \* index "documents": the term vectors of the content, by id
    blobs,          \* MinIO: the stored objects, named by the uploading session
    client,         \* ElasticsearchClient.client is set
    pc,             \* position of each session's request
    mode,           \* "upload" | "single"
    commit,         \* the commit argument of the running call
    minio_uploaded, \* upload_document: the blob was stored
    keywords,       \* upload_document: the extracted keywords
    extraction_method, \* upload_document: the method label
    unique_names,   \* get_or_create_tags: the names being resolved, in order
    batch_results,  \* get_or_create_tags: pre-fetched hits per name
    idx,            \* position in unique_names / number of the single call
    name,           \* the name being resolved
    hit,            \* tag_id of the similarity hit being re-fetched (0: none)
    new_tag,        \* the tag created by TagRepository.create, before mirroring
    tags,           \* tags returned so far, with the query and the way found
    outcome,        \* "" while running, then "ok" | "error"
    exception,      \* the exception that is propagating ("": none)
    faults          \* the external calls that have failed: <<session, call>>

dbVars == <<tagRows, next_tag_id, documentRows, documentTagRows>>

esVars == <<tagIndex, documentIndex, termVectors, client>>

uploadVars == <<mode, commit, minio_uploaded, keywords, extraction_method>>

callVars == <<unique_names, batch_results, idx, name, hit, new_tag, tags>>

vars == <<tagRows, next_tag_id, documentRows, documentTagRows, tagIndex,
          documentIndex, termVectors, blobs, client, pc, mode, commit,
          minio_uploaded,
          keywords, extraction_method, unique_names, batch_results, idx, name,
          hit, new_tag, tags, outcome, exception, faults>>

\* the document row of a session's upload: every upload inserts one document
document_id(s) == s

\* the rows a session's transaction sees (READ COMMITTED plus its own writes)
View(s) == {r \in tagRows : r.txn \in {Committed, s}}

Tag(r) == [tag_id |-> r.tag_id, name |-> r.name, embedding |-> r.embedding]

\* a lookup by name that misses the rows the session has flushed but not
\* committed
find_by_name_committed(s, n) ==
    IF \E r \in tagRows : r.txn = Committed /\ r.name = n
    THEN Tag(CHOOSE r \in tagRows : r.txn = Committed /\ r.name = n)
    ELSE None

\* TagRepository.find_by_name
find_by_name(s, n) ==
    IF \E r \in View(s) : r.name = n
    THEN Tag(CHOOSE r \in View(s) : r.name = n)
    ELSE None

\* a lookup by id that misses the rows the session has flushed but not
\* committed
find_by_id_committed(s, id) ==
    IF \E r \in tagRows : r.txn = Committed /\ r.tag_id = id
    THEN Tag(CHOOSE r \in tagRows : r.txn = Committed /\ r.tag_id = id)
    ELSE None

\* a lookup by id that also reads the rows other sessions have not committed
find_by_id_dirty(s, id) ==
    IF \E r \in tagRows : r.tag_id = id
    THEN Tag(CHOOSE r \in tagRows : r.tag_id = id)
    ELSE None

\* TagRepository.find_by_id
find_by_id(s, id) ==
    IF \E r \in View(s) : r.tag_id = id
    THEN Tag(CHOOSE r \in View(s) : r.tag_id = id)
    ELSE None

\* ElasticsearchClient.search_similar_tags with size = 1: the nearest
\* neighbour (knn, k = 1), kept if its score reaches min_score
search_similar_tags(embedding, threshold) ==
    LET nearest == {e \in tagIndex :
                      \A f \in tagIndex :
                          AtLeastAsClose(embedding, e.embedding, f.embedding)}
        hits == {e \in nearest : ScoreAtLeast(embedding, e.embedding, threshold)}
    IN  IF hits = {} THEN <<>>
        ELSE <<[tag_id |-> (CHOOSE e \in hits : TRUE).tag_id,
                name |-> (CHOOSE e \in hits : TRUE).name]>>

Init ==
    /\ tagRows = {}
    /\ next_tag_id = 1
    /\ documentRows = {}
    /\ documentTagRows = {}
    /\ tagIndex = {}
    /\ documentIndex = {}
    /\ termVectors = <<>>
    /\ blobs = {}
    /\ client = FALSE
    /\ pc = [s \in Sessions |-> "idle"]
    /\ mode = [s \in Sessions |-> ""]
    /\ commit = [s \in Sessions |-> FALSE]
    /\ minio_uploaded = [s \in Sessions |-> FALSE]
    /\ keywords = [s \in Sessions |-> <<>>]
    /\ extraction_method = [s \in Sessions |-> ""]
    /\ unique_names = [s \in Sessions |-> <<>>]
    /\ batch_results = [s \in Sessions |-> <<>>]
    /\ idx = [s \in Sessions |-> 0]
    /\ name = [s \in Sessions |-> <<>>]
    /\ hit = [s \in Sessions |-> 0]
    /\ new_tag = [s \in Sessions |-> None]
    /\ tags = [s \in Sessions |-> <<>>]
    /\ outcome = [s \in Sessions |-> ""]
    /\ exception = [s \in Sessions |-> ""]
    /\ faults = <<>>

\* the local variables of a call are gone once it has returned or raised
\* (minio_uploaded is still read by the except branch after the commit)
ClearLocals(s) ==
    /\ keywords' = [keywords EXCEPT ![s] = <<>>]
    /\ unique_names' = [unique_names EXCEPT ![s] = <<>>]
    /\ batch_results' = [batch_results EXCEPT ![s] = <<>>]
    /\ idx' = [idx EXCEPT ![s] = 0]
    /\ name' = [name EXCEPT ![s] = <<>>]
    /\ hit' = [hit EXCEPT ![s] = 0]
    /\ new_tag' = [new_tag EXCEPT ![s] = None]
    /\ tags' = [tags EXCEPT ![s] = <<>>]

\* sessions are numbered in the order in which their requests arrive
Arrives(s) == \A t \in Sessions : t < s => pc[t] /= "idle"

\* an exception leaves the call; the except branch of the request runs next
Raise(s, e) ==
    /\ pc' = [pc EXCEPT ![s] = "rollback"]
    /\ exception' = [exception EXCEPT ![s] = e]

\* an external call of session s succeeds (ok) or fails; a failure that
\* changes the course of the request is logged
Fault(s, call, ok) ==
    /\ ok \/ Len(faults) < MaxFaults
    /\ faults' = IF ok THEN faults ELSE Append(faults, <<s, call>>)

\* the step moves on without an exception
Goto(s, label) ==
    /\ pc' = [pc EXCEPT ![s] = label]
    /\ UNCHANGED exception

----------------------------------------------------------------------------
(* Transactions of the primary store                                        *)

\* session.commit(): the session's pending rows become visible to everyone
CommitRows(rows, s) ==
    {IF r.txn = s THEN [r EXCEPT !.txn = Committed] ELSE r : r \in rows}

\* a rollback that discards nothing
RollbackRows_keeps(rows, s) == rows

\* session.rollback(): the session's pending rows are discarded
RollbackRows(rows, s) == {r \in rows : r.txn /= s}

\* INSERT of a name that another open transaction has inserted waits for
\* that transaction to end (unique index on tags.name)
InsertBlockedBy(s, n) ==
    {r.txn : r \in {q \in tagRows : q.name = n /\ q.txn \notin {Committed, s}}}

\* a tags table whose name column has no unique constraint
UniqueViolation_none(s, n) == FALSE

\* the unique constraint on tags.name rejects the INSERT
UniqueViolation(s, n) ==
    \E r \in tagRows : r.name = n /\ r.txn \in {Committed, s}

----------------------------------------------------------------------------
(* Resolution of one name: TagRepository.get_or_create and the loop body of *)
(* TagService.get_or_create_tags                                            *)

\* a tag has been obtained for name[s]: return it (single path) or append it
\* and go on with the next name of the batch
Returned(s, t, how) ==
    /\ tags' = [tags EXCEPT ![s] =
                 Append(@, [tag_id |-> t.tag_id, name |-> t.name,
                            query |-> name[s], how |-> how])]
    /\ IF mode[s] = "upload" /\ idx[s] < Len(unique_names[s])
       THEN /\ idx' = [idx EXCEPT ![s] = @ + 1]
            /\ name' = [name EXCEPT ![s] = unique_names[s][idx[s] + 1]]
            /\ Goto(s, "find_by_name")
       ELSE /\ UNCHANGED <<idx, name>>
            /\ Goto(s, IF mode[s] = "upload" THEN "bulk_create" ELSE "returned")

\* TagService.get_or_create_tag: encode the name and call get_or_create.
\* Its only caller is the script test_tag_creation.py, one process that makes
\* its calls one after the other on one session; the script is run while no
\* upload is in progress.
GetOrCreateTagOf(s, names) ==
    /\ \/ pc[s] = "idle" /\ Arrives(s)
       \/ pc[s] = "returned" /\ idx[s] < MaxCalls
    /\ \A t \in Sessions \ {s} : pc[t] \in {"idle", "done"}
    /\ \E n \in names, c \in BOOLEAN :
          /\ pc[s] = "returned" => c = commit[s]
          /\ mode' = [mode EXCEPT ![s] = "single"]
          /\ commit' = [commit EXCEPT ![s] = c]
          /\ name' = [name EXCEPT ![s] = n]
    /\ idx' = [idx EXCEPT ![s] = @ + 1]
    /\ Goto(s, "find_by_name")
    /\ UNCHANGED <<dbVars, esVars, blobs, minio_uploaded, keywords,
                   extraction_method, unique_names, batch_results, hit, new_tag,
                   tags, outcome>>
    /\ UNCHANGED faults

\* the calls of the script: names in their normalized form
GetOrCreateTag(s) == GetOrCreateTagOf(s, Vocabulary)

\* step 1 of both paths: exact match by name
FindByName(s) ==
    /\ pc[s] = "find_by_name"
    /\ LET tag == find_by_name(s, name[s]) IN
        IF tag /= None
        THEN Returned(s, tag, "exact") /\ UNCHANGED hit
        ELSE /\ IF mode[s] = "single"
                THEN Goto(s, "search") /\ UNCHANGED hit
                ELSE IF batch_results[s][idx[s]] /= <<>>
                THEN /\ hit' = [hit EXCEPT ![s] = batch_results[s][idx[s]][1].tag_id]
                     /\ Goto(s, "find_by_id")
                ELSE Goto(s, "create") /\ UNCHANGED hit
             /\ UNCHANGED <<idx, name, tags>>
    /\ UNCHANGED <<dbVars, esVars, blobs, uploadVars, unique_names, batch_results,
                   new_tag, outcome>>
    /\ UNCHANGED faults

\* a find_similar_tag that lets the exception of the search through
SearchFailed_raises(s) == Raise(s, "ConnectionError")

\* TagRepository.find_similar_tag, the except branch: any exception of the
\* search (the connect included) is caught and means "no similar tag"
SearchFailed(s) == Goto(s, "create")

\* TagRepository.find_similar_tag, first half: the search
FindSimilarTag(s) ==
    /\ pc[s] = "search"
    /\ \E up \in BOOLEAN :
         /\ Fault(s, "search_similar_tags", up)
         /\ IF ~up
            THEN SearchFailed(s) /\ UNCHANGED hit
            ELSE LET similar_tags ==
                         search_similar_tags(encode(name[s]), similarity_threshold)
                 IN  IF similar_tags = <<>>
                     THEN Goto(s, "create") /\ UNCHANGED hit
                     ELSE /\ hit' = [hit EXCEPT ![s] = similar_tags[1].tag_id]
                          /\ Goto(s, "find_by_id")
    /\ client' = TRUE
    /\ UNCHANGED <<dbVars, tagIndex, documentIndex, termVectors, blobs, uploadVars, unique_names,
                   batch_results, idx, name, new_tag, tags, outcome>>

\* the hit is re-fetched from the primary store by its id
FindById(s) ==
    /\ pc[s] = "find_by_id"
    /\ LET tag == find_by_id(s, hit[s]) IN
        IF tag /= None
        THEN Returned(s, tag, "similar")
        ELSE Goto(s, "create") /\ UNCHANGED <<idx, name, tags>>
    /\ hit' = [hit EXCEPT ![s] = 0]
    /\ UNCHANGED <<dbVars, esVars, blobs, uploadVars, unique_names, batch_results,
                   new_tag, outcome>>
    /\ UNCHANGED faults

\* TagRepository.create, first half: add, then commit or flush, then refresh
Create(s) ==
    /\ pc[s] = "create"
    /\ InsertBlockedBy(s, name[s]) = {}
    /\ IF UniqueViolation(s, name[s])
       THEN Raise(s, "IntegrityError tags.name") /\ UNCHANGED <<dbVars, new_tag>>
       ELSE LET row == [tag_id |-> next_tag_id, name |-> name[s],
                        embedding |-> encode(name[s]), txn |-> s]
            IN  /\ tagRows' = IF commit[s] THEN CommitRows(tagRows \cup {row}, s)
                              ELSE tagRows \cup {row}
                /\ documentRows' = IF commit[s] THEN CommitRows(documentRows, s)
                                   ELSE documentRows
                /\ documentTagRows' = IF commit[s] THEN CommitRows(documentTagRows, s)
                                      ELSE documentTagRows
                /\ next_tag_id' = next_tag_id + 1
                /\ new_tag' = [new_tag EXCEPT ![s] = Tag(row)]
                /\ Goto(s, "index_tag")
    /\ UNCHANGED <<esVars, blobs, uploadVars, unique_names, batch_results, idx,
                   name, hit, tags, outcome>>
    /\ UNCHANGED faults

\* two sessions each wait for a row the other has inserted: the database
\* aborts one of them with a deadlock error
DeadlockDetected(s) ==
    /\ pc[s] = "create"
    /\ \E t \in InsertBlockedBy(s, name[s]) :
          pc[t] = "create" /\ s \in InsertBlockedBy(t, name[t])
    /\ Raise(s, "DeadlockDetected")
    /\ UNCHANGED <<dbVars, esVars, blobs, uploadVars, callVars, outcome>>
    /\ UNCHANGED faults

\* an index call that acknowledges the tag and stores nothing
index_tag_lost(index, tag) == index

\* ElasticsearchClient.index_tag: the document id is the tag_id
index_tag(index, tag) == {e \in index : e.tag_id /= tag.tag_id} \cup {tag}

\* a create that lets the exception of index_tag through
MirrorFailed_raises(s) ==
    /\ Raise(s, "ConnectionError")
    /\ UNCHANGED <<idx, name, tags>>

\* TagRepository.create, the except branch around index_tag: the failure is
\* logged and the tag is returned
MirrorFailed(s) == Returned(s, new_tag[s], "created")

\* TagRepository.create, second half: mirror the tag and return it
IndexTag(s) ==
    /\ pc[s] = "index_tag"
    /\ \E up \in BOOLEAN :
          /\ Fault(s, "index_tag", up)
          /\ IF up
             THEN /\ tagIndex' = index_tag(tagIndex, new_tag[s])
                  /\ Returned(s, new_tag[s], "created")
             ELSE /\ UNCHANGED tagIndex
                  /\ MirrorFailed(s)
    /\ client' = TRUE
    /\ new_tag' = [new_tag EXCEPT ![s] = None]
    /\ UNCHANGED <<dbVars, documentIndex, termVectors, blobs, uploadVars, unique_names,
                   batch_results, hit, outcome>>

\* the caller of get_or_create_tag ends its session: pending work is
\* committed or rolled back
CloseSession(s) ==
    /\ pc[s] = "returned"
    /\ \E keep \in BOOLEAN :
          tagRows' = IF keep THEN CommitRows(tagRows, s) ELSE RollbackRows(tagRows, s)
    /\ outcome' = [outcome EXCEPT ![s] = "ok"]
    /\ Goto(s, "done")
    /\ ClearLocals(s)
    /\ commit' = [commit EXCEPT ![s] = FALSE]
    /\ UNCHANGED <<next_tag_id, documentRows, documentTagRows, esVars, blobs, mode,
                   minio_uploaded, extraction_method>>
    /\ UNCHANGED faults

----------------------------------------------------------------------------
(* TagService.get_or_create_tags and attach_tags_to_document                *)

\* names that survive the defensive filter, stripped
RECURSIVE valid_names(_)
valid_names(names) ==
    IF names = <<>> THEN <<>>
    ELSE LET name_stripped == strip(Head(names)) IN
         IF name_stripped = <<>> \/ is_stopword(name_stripped)
         THEN valid_names(Tail(names))
         ELSE <<name_stripped>> \o valid_names(Tail(names))

\* a batch that takes the stripped names as they are
normalized_names_raw(names) == valid_names(names)

normalized_names(names) ==
    [i \in 1..Len(valid_names(names)) |-> normalize_tag_name(valid_names(names)[i])]

\* list(set(normalized_names)): the distinct names in the iteration order of
\* a Python set, which is any order
OrdersOf(S) ==
    {f \in [1..Cardinality(S) -> S] : \A i, j \in DOMAIN f : f[i] = f[j] => i = j}

\* ElasticsearchClient.search_similar_tags_batch: one search per embedding,
\* every one of them against the index as it is now
search_similar_tags_batch(names, threshold) ==
    [i \in 1..Len(names) |-> search_similar_tags(encode(names[i]), threshold)]

\* attach_tags_to_document up to the batch search of get_or_create_tags.
\* EmbeddingService.encode raises RuntimeError when the model fails; the
\* connect of the client is outside the try of the batch search.
GetOrCreateTags(s) ==
    /\ pc[s] = "get_or_create_tags"
    /\ IF normalized_names(keywords[s]) = <<>>
       THEN /\ Goto(s, "bulk_create")
            /\ UNCHANGED <<client, unique_names, batch_results, idx, name, faults>>
       ELSE \E order \in OrdersOf(Range(normalized_names(keywords[s]))),
               encoded \in BOOLEAN, up \in BOOLEAN :
              IF ~encoded
              THEN /\ Fault(s, "encode", FALSE)
                   /\ Raise(s, "RuntimeError")
                   /\ UNCHANGED <<client, unique_names, batch_results, idx, name>>
              ELSE /\ Fault(s, "search_similar_tags_batch", up)
                   /\ client' = TRUE
                   /\ IF ~client /\ ~up
                      THEN /\ Raise(s, "ConnectionError")
                           /\ UNCHANGED <<unique_names, batch_results, idx, name>>
                      ELSE /\ unique_names' = [unique_names EXCEPT ![s] = order]
                           /\ batch_results' = [batch_results EXCEPT ![s] =
                                 IF up THEN search_similar_tags_batch(order, similarity_threshold)
                                 ELSE [i \in 1..Len(order) |-> <<>>]]
                           /\ idx' = [idx EXCEPT ![s] = 1]
                           /\ name' = [name EXCEPT ![s] = order[1]]
                           /\ Goto(s, "find_by_name")
    /\ UNCHANGED <<dbVars, tagIndex, documentIndex, termVectors, blobs, uploadVars, hit, new_tag,
                   tags, outcome>>

\* DocumentTagRepository.bulk_create: one row per returned tag; two rows with
\* the same (document_id, tag_id) violate the primary key
BulkCreate(s) ==
    /\ pc[s] = "bulk_create"
    /\ LET tag_ids == [i \in 1..Len(tags[s]) |-> tags[s][i].tag_id] IN
        IF \E i, j \in DOMAIN tag_ids : i /= j /\ tag_ids[i] = tag_ids[j]
        THEN Raise(s, "IntegrityError document_tags.pkey") /\ UNCHANGED documentTagRows
        ELSE /\ documentTagRows' = documentTagRows \cup
                    {[document_id |-> document_id(s), tag_id |-> tag_ids[i], txn |-> s] :
                        i \in DOMAIN tag_ids}
             /\ Goto(s, "commit")
    /\ UNCHANGED <<tagRows, next_tag_id, documentRows, esVars, blobs, uploadVars,
                   callVars, outcome>>
    /\ UNCHANGED faults

----------------------------------------------------------------------------
(* DocumentService.upload_document                                          *)

KEYWORD_EXTRACTION_THRESHOLD == 5

\* the default of the commit argument of attach_tags_to_document
upload_commit_default == TRUE

\* the commit argument upload_document passes to attach_tags_to_document
upload_commit == FALSE

\* the keyword lists the extraction hands over in this model: lower-cased,
\* distinct, at most MaxKeywords long
KeywordLists ==
    {k \in {<<>>, <<lower(Ml)>>, <<lower(Ai), lower(Db)>>, <<lower(Dl), lower(Db)>>,
            <<lower(Ai), lower(Ml), lower(Db)>>} : Len(k) <= MaxKeywords}

\* steps 1-6: validate the MIME type, store the blob, insert the document
\* row (flush), extract the text; a text that is too short ends the upload
\* with a commit
UploadFile(s) ==
    /\ pc[s] = "idle" /\ Arrives(s)
    /\ \A t \in Sessions \ {s} : mode[t] = "single" => pc[t] = "done"
    /\ mode' = [mode EXCEPT ![s] = "upload"]
    /\ commit' = [commit EXCEPT ![s] = upload_commit]
    /\ \E allowed \in BOOLEAN, stored \in BOOLEAN, inserted \in BOOLEAN,
          text \in {"short", "long", "error"} :
        IF ~allowed
        THEN /\ Goto(s, "done")
             /\ outcome' = [outcome EXCEPT ![s] = "error"]
             /\ UNCHANGED <<blobs, minio_uploaded, documentRows, extraction_method,
                            faults>>
        ELSE IF ~stored
        THEN /\ Fault(s, "upload_file", FALSE)
             /\ Raise(s, "S3Error")
             /\ UNCHANGED <<blobs, minio_uploaded, documentRows, extraction_method,
                            outcome>>
        ELSE IF ~inserted
        THEN /\ Fault(s, "document_repository.create", FALSE)
             /\ blobs' = blobs \cup {s}
             /\ minio_uploaded' = [minio_uploaded EXCEPT ![s] = TRUE]
             /\ Raise(s, "DBAPIError")
             /\ UNCHANGED <<documentRows, extraction_method, outcome>>
        ELSE /\ Fault(s, "extract_text_from_file", text /= "error")
             /\ blobs' = blobs \cup {s}
             /\ minio_uploaded' = [minio_uploaded EXCEPT ![s] = TRUE]
             /\ documentRows' = documentRows \cup
                                  {[document_id |-> document_id(s), txn |-> s]}
             /\ CASE text = "short" -> Goto(s, "commit")
                  [] text = "long" -> Goto(s, "index_document")
                  [] OTHER -> Raise(s, "TextExtractionError")
             /\ extraction_method' = [extraction_method EXCEPT ![s] =
                                        IF text = "short" THEN "none" ELSE @]
             /\ UNCHANGED outcome
    /\ UNCHANGED <<tagRows, next_tag_id, documentTagRows, esVars, keywords, callVars>>

\* steps 7-8: summarise (the summary may be absent), index the document;
\* the connect of the client is outside the try of index_document
IndexDocument(s) ==
    /\ pc[s] = "index_document"
    /\ \E up \in BOOLEAN :
        /\ Fault(s, "index_document", up)
        /\ client' = TRUE
        /\ IF ~client /\ ~up
           THEN Raise(s, "ConnectionError") /\ UNCHANGED documentIndex
           ELSE /\ documentIndex' = IF up THEN documentIndex \cup {document_id(s)}
                                    ELSE documentIndex
                /\ Goto(s, "extract_keywords")
    /\ UNCHANGED <<dbVars, tagIndex, termVectors, blobs, uploadVars, callVars,
                   outcome>>

\* ElasticsearchClient.get_document_count: 0 when the count fails
get_document_count(up) == IF up THEN Cardinality(documentIndex) ELSE 0

\* step 9: hybrid keyword extraction; no keyword ends the upload with a
\* commit.  A failed count is the count 0 and nothing else, it is not logged.
\* KeyBERTExtractor loads its model outside its try: a model that cannot be
\* loaded raises.
ExtractKeywords(s) ==
    /\ pc[s] = "extract_keywords"
    /\ \E up \in BOOLEAN, loaded \in BOOLEAN, final_keywords \in KeywordLists :
        LET document_count == get_document_count(up) IN
        IF document_count < KEYWORD_EXTRACTION_THRESHOLD /\ ~loaded
        THEN /\ Fault(s, "_load_model", FALSE)
             /\ Raise(s, "ImportError")
             /\ UNCHANGED <<extraction_method, keywords>>
        ELSE /\ UNCHANGED faults
             /\ extraction_method' = [extraction_method EXCEPT ![s] =
                   IF document_count < KEYWORD_EXTRACTION_THRESHOLD
                   THEN "keybert" ELSE "elasticsearch"]
             /\ keywords' = [keywords EXCEPT ![s] = final_keywords]
             /\ Goto(s, IF final_keywords = <<>> THEN "commit" ELSE "get_or_create_tags")
    /\ UNCHANGED <<dbVars, esVars, blobs, mode, commit, minio_uploaded, callVars,
                   outcome>>

\* step 11: commit of the upload's transaction; the tags are handed back
Commit(s) ==
    /\ pc[s] = "commit"
    /\ tagRows' = CommitRows(tagRows, s)
    /\ documentRows' = CommitRows(documentRows, s)
    /\ documentTagRows' = CommitRows(documentTagRows, s)
    /\ Goto(s, "refresh")
    /\ ClearLocals(s)
    /\ UNCHANGED <<next_tag_id, esVars, blobs, mode, commit, minio_uploaded,
                   extraction_method, outcome>>
    /\ UNCHANGED faults

\* step 12: refresh of the document, then return
Refresh(s) ==
    /\ pc[s] = "refresh"
    /\ \E ok \in BOOLEAN :
        /\ Fault(s, "refresh", ok)
        /\ IF ok
           THEN /\ Goto(s, "done")
                /\ outcome' = [outcome EXCEPT ![s] = "ok"]
                /\ minio_uploaded' = [minio_uploaded EXCEPT ![s] = FALSE]
           ELSE /\ Raise(s, "OperationalError")
                /\ UNCHANGED <<outcome, minio_uploaded>>
    /\ UNCHANGED <<dbVars, esVars, blobs, mode, commit, keywords, extraction_method,
                   callVars>>

\* the except branches: roll the transaction back and, in an upload that
\* has stored its blob, delete the blob (best effort); the request ends with
\* an error
Rollback(s) ==
    /\ pc[s] = "rollback"
    /\ tagRows' = RollbackRows(tagRows, s)
    /\ documentRows' = RollbackRows(documentRows, s)
    /\ documentTagRows' = RollbackRows(documentTagRows, s)
    /\ IF mode[s] = "upload" /\ minio_uploaded[s]
       THEN \E deleted \in BOOLEAN :
               /\ Fault(s, "delete_file", deleted)
               /\ blobs' = IF deleted THEN blobs \ {s} ELSE blobs
       ELSE UNCHANGED <<blobs, faults>>
    /\ pc' = [pc EXCEPT ![s] = "done"]
    /\ outcome' = [outcome EXCEPT ![s] = "error"]
    /\ exception' = [exception EXCEPT ![s] = ""]
    /\ ClearLocals(s)
    /\ commit' = [commit EXCEPT ![s] = FALSE]
    /\ minio_uploaded' = [minio_uploaded EXCEPT ![s] = FALSE]
    /\ extraction_method' = [extraction_method EXCEPT ![s] = ""]
    /\ UNCHANGED <<next_tag_id, esVars, mode>>

----------------------------------------------------------------------------

Next ==
    \E s \in Sessions :
        \/ UploadFile(s)
        \/ IndexDocument(s)
        \/ ExtractKeywords(s)
        \/ GetOrCreateTags(s)
        \/ GetOrCreateTag(s)
        \/ FindByName(s)
        \/ FindSimilarTag(s)
        \/ FindById(s)
        \/ Create(s)
        \/ DeadlockDetected(s)
        \/ IndexTag(s)
        \/ BulkCreate(s)
        \/ Commit(s)
        \/ Refresh(s)
        \/ Rollback(s)
        \/ CloseSession(s)

Spec == Init /\ [][Next]_vars

----------------------------------------------------------------------------
(* HybridKeywordExtractionService.extract_keywords, step by step            *)

KEYWORD_EXTRACTION_COUNT == 3

\* documents indexed before the upload that is looked at
MaxDocuments == 6

\* longest list of arbitrary candidates an extractor returns
MaxCandidates == 2

\* the document ids of n earlier uploads
OlderDocuments(n) == {100 + i : i \in 1..n}

cloud == <<"c", "l", "o", "u", "d">>

Seoul == <<"<seo>", "<ul>">>

\* candidate keywords as KeyBERT or the term vectors return them
Tokens ==
    { cloud, <<"C", "l", "o", "u", "d">>, <<" ", "c", "l", "o", "u", "d">>,
      <<"m", "a", "c", "h", "i", "n", "e", " ", "l", "e", "a", "r", "n", "i", "n", "g">>,
      <<"t", "h", "e">>, <<"T", "H", "E">>, <<"a">>, <<"2", "0", "2", "4">>,
      <<"o", "f", " ", "t", "h", "e">>, <<"a", "i", " ", "o", "f">>, <<" ">>,
      <<"<i>">>, Seoul \o <<"<e>", "<seo>">>, Seoul \o <<"<eu>", "<ro>">>,
      <<"<u>", "<ri>", "<ga>">>, <<"<ha>", "<ji>", "<man>">>, <<"<na>", "<i>">> }

\* the lists an extractor returns: every short list of candidates, and the
\* lists of the scenarios with more candidates than KEYWORD_EXTRACTION_COUNT
CandidateLists ==
    UNION {[1..n -> Tokens] : n \in 0..MaxCandidates}
        \cup { <<lower(Ai), <<"t", "h", "e">>, lower(Ml), <<"A", "I">>, lower(Db), cloud>>,
                <<cloud, lower(Ai), lower(Ml), lower(Db), Seoul>> }

\* step 4 of extract_keywords: the keys of the dict seen, in insertion order
RECURSIVE seen_keys(_)
seen_keys(kws) ==
    IF kws = <<>> THEN <<>>
    ELSE LET seen == seen_keys(SubSeq(kws, 1, Len(kws) - 1))
             kw_normalized == lower(strip(kws[Len(kws)]))
         IN  IF kw_normalized /= <<>> /\ kw_normalized \notin Range(seen)
             THEN Append(seen, kw_normalized)
             ELSE seen

\* a step 5 that returns every keyword
first_keywords_all(kws, target_count) == kws

\* step 5 of extract_keywords: keywords[:target_count]
first_keywords(kws, target_count) ==
    SubSeq(kws, 1, IF Len(kws) < target_count THEN Len(kws)
                        ELSE target_count)

\* an upload has stored its blob, inserted its document row and indexed its
\* text, and calls extract_keywords
InitKeywords ==
    /\ \E n \in 0..MaxDocuments :
          /\ documentIndex = OlderDocuments(n) \cup {document_id(1)}
          /\ documentRows = {[document_id |-> d, txn |-> Committed] :
                                d \in OlderDocuments(n)}
                               \cup {[document_id |-> document_id(1), txn |-> 1]}
    /\ tagRows = {}
    /\ next_tag_id = 1
    /\ documentTagRows = {}
    /\ tagIndex = {}
    /\ termVectors = <<>>
    /\ blobs = {1}
    /\ client = TRUE
    /\ pc = [s \in Sessions |-> IF s = 1 THEN "extract_keywords" ELSE "idle"]
    /\ mode = [s \in Sessions |-> IF s = 1 THEN "upload" ELSE ""]
    /\ commit = [s \in Sessions |-> FALSE]
    /\ minio_uploaded = [s \in Sessions |-> s = 1]
    /\ keywords = [s \in Sessions |-> <<>>]
    /\ extraction_method = [s \in Sessions |-> ""]
    /\ unique_names = [s \in Sessions |-> <<>>]
    /\ batch_results = [s \in Sessions |-> <<>>]
    /\ idx = [s \in Sessions |-> 0]
    /\ name = [s \in Sessions |-> <<>>]
    /\ hit = [s \in Sessions |-> 0]
    /\ new_tag = [s \in Sessions |-> None]
    /\ tags = [s \in Sessions |-> <<>>]
    /\ outcome = [s \in Sessions |-> ""]
    /\ exception = [s \in Sessions |-> ""]
    /\ faults = <<>>

\* what extract_keywords leaves alone
KeywordsFrame ==
    UNCHANGED <<dbVars, esVars, blobs, mode, commit, minio_uploaded, callVars, outcome>>

\* a selection that sends a corpus of exactly the threshold to KeyBERT
ChooseExtractor_exclusive(document_count) ==
    IF document_count <= KEYWORD_EXTRACTION_THRESHOLD
    THEN "keybert_extractor" ELSE "elasticsearch_extractor"

\* steps 1-2: the strategy is chosen by the document count
ChooseExtractor(document_count) ==
    IF document_count < KEYWORD_EXTRACTION_THRESHOLD
    THEN "keybert_extractor" ELSE "elasticsearch_extractor"

\* step 1: count the indexed documents (0 when the count fails) and choose
GetDocumentCount(s) ==
    /\ pc[s] = "extract_keywords"
    /\ \E up \in BOOLEAN :
          /\ Fault(s, "get_document_count", up)
          /\ Goto(s, ChooseExtractor(get_document_count(up)))
    /\ UNCHANGED <<keywords, extraction_method>>
    /\ KeywordsFrame

\* KeyBERTExtractor.extract_keywords: the model is loaded outside the try;
\* a failure of the extraction itself is caught and gives the empty list
KeyBERTExtract(s) ==
    /\ pc[s] = "keybert_extractor"
    /\ \E result \in {"unavailable", "error", "ok"}, candidates \in CandidateLists :
          /\ Fault(s, IF result = "unavailable" THEN "_load_model"
                      ELSE "model.extract_keywords", result = "ok")
          /\ result /= "ok" => candidates = <<>>
          /\ IF result = "unavailable"
             THEN /\ Raise(s, "ImportError")
                  /\ UNCHANGED <<keywords, extraction_method>>
             ELSE /\ keywords' = [keywords EXCEPT ![s] = candidates]
                  /\ extraction_method' = [extraction_method EXCEPT ![s] = "keybert"]
                  /\ Goto(s, "filter_stopwords")
    /\ KeywordsFrame

\* ElasticsearchExtractor.extract_keywords: no document_id, no term vectors
\* and any exception of the backend give the empty list
ElasticsearchExtract(s) ==
    /\ pc[s] = "elasticsearch_extractor"
    /\ \E result \in {"no_document_id", "no_term_vectors", "error", "ok"},
          candidates \in CandidateLists :
          /\ Fault(s, "extract_significant_terms", result /= "error")
          /\ result /= "ok" => candidates = <<>>
          /\ keywords' = [keywords EXCEPT ![s] = candidates]
          /\ extraction_method' = [extraction_method EXCEPT ![s] = "elasticsearch"]
          /\ Goto(s, "filter_stopwords")
    /\ KeywordsFrame

\* step 3: keywords = filter_stopwords(keywords)
FilterStopwords(s) ==
    /\ pc[s] = "filter_stopwords"
    /\ keywords' = [keywords EXCEPT ![s] = filter_stopwords(keywords[s])]
    /\ Goto(s, "deduplicate")
    /\ UNCHANGED <<extraction_method, faults>>
    /\ KeywordsFrame

\* step 4: keywords = list(seen.keys())
Deduplicate(s) ==
    /\ pc[s] = "deduplicate"
    /\ keywords' = [keywords EXCEPT ![s] = seen_keys(keywords[s])]
    /\ Goto(s, "truncate")
    /\ UNCHANGED <<extraction_method, faults>>
    /\ KeywordsFrame

\* step 5 and the return to upload_document, which goes on with the tags
\* or, without keywords, with its commit
Truncate(s) ==
    /\ pc[s] = "truncate"
    /\ LET final_keywords == first_keywords(keywords[s], KEYWORD_EXTRACTION_COUNT) IN
          /\ keywords' = [keywords EXCEPT ![s] = final_keywords]
          /\ Goto(s, IF final_keywords = <<>> THEN "commit" ELSE "get_or_create_tags")
    /\ UNCHANGED <<extraction_method, faults>>
    /\ KeywordsFrame

NextKeywords ==
    \E s \in Sessions :
        \/ GetDocumentCount(s)
        \/ KeyBERTExtract(s)
        \/ ElasticsearchExtract(s)
        \/ FilterStopwords(s)
        \/ Deduplicate(s)
        \/ Truncate(s)

SpecKeywords == InitKeywords /\ [][NextKeywords]_vars

----------------------------------------------------------------------------
(* ElasticsearchExtractor.extract_keywords and                              *)
(* ElasticsearchClient.extract_significant_terms                            *)

\* longest list of arbitrary terms in the term vectors of a document
MaxTerms == 2

\* extraction_count = max(keyword_count * 3, 10)
extraction_count ==
    IF KEYWORD_EXTRACTION_COUNT * 3 > 10 THEN KEYWORD_EXTRACTION_COUNT * 3 ELSE 10

\* a term of n characters
TermOfLength(n) == [i \in 1..n |-> "x"]

\* terms of 1, 2, 5, 30 and 31 characters
Terms == { <<"a">>, lower(Ai), cloud, TermOfLength(30), TermOfLength(31) }

\* an entry of "terms" in a termvectors response
TermInfos == [term : Terms, term_freq : 1..2, doc_freq : {1, 3}]

\* the "terms" of a document: every short list of distinct terms, and a
\* list of more terms than extraction_count
TermVectorLists ==
    {tv \in UNION {[1..n -> TermInfos] : n \in 0..MaxTerms} :
        \A i, j \in DOMAIN tv : tv[i].term = tv[j].term => i = j}
      \cup { [i \in 1..(extraction_count + 2) |->
                [term |-> <<"t", LowerCase[i]>>, term_freq |-> 1 + (i % 3),
                 doc_freq |-> 1 + (i % 2)]] }

\* idf = math.log((total_docs + 1) / (df + 1)) + 1 in thousandths, for the
\* total_docs = KEYWORD_EXTRACTION_THRESHOLD + 1 documents of the corpus
idf(df) == <<2252, 1847, 1559, 1336, 1154, 1000>>[df]

tfidf(term_info) == term_info.term_freq * idf(term_info.doc_freq)

\* a sort that leaves the terms in the order of the response
sort_as_given(term_scores) == term_scores

\* term_scores.sort(key=lambda x: x[1], reverse=True): stable, the highest
\* score first
RECURSIVE sort(_)
sort(term_scores) ==
    IF term_scores = <<>> THEN <<>>
    ELSE LET first == Head(term_scores)
             rest == sort(Tail(term_scores))
             above == Cardinality({i \in DOMAIN rest : tfidf(rest[i]) > tfidf(first)})
         IN  SubSeq(rest, 1, above) \o <<first>> \o SubSeq(rest, above + 1, Len(rest))

\* ElasticsearchClient.extract_significant_terms when the backend answers:
\* the get of a document that is not indexed raises (caught: no keyword),
\* a response without term vectors gives no keyword
extract_significant_terms(id, size) ==
    IF id \notin documentIndex \/ id \notin DOMAIN termVectors THEN <<>>
    ELSE LET terms == termVectors[id]
             term_scores == sort(SelectSeq(terms,
                                LAMBDA t : 2 <= Len(t.term) /\ Len(t.term) <= 30))
         IN  [i \in 1..(IF Len(term_scores) < size THEN Len(term_scores) ELSE size)
                  |-> term_scores[i].term]

\* an upload has indexed its text (or the indexing has failed) in a corpus
\* that sends it to the Elasticsearch extractor
InitTerms ==
    /\ \E indexed \in BOOLEAN :
          /\ documentIndex = OlderDocuments(KEYWORD_EXTRACTION_THRESHOLD)
                                \cup (IF indexed THEN {document_id(1)} ELSE {})
          /\ termVectors \in {<<>>} \cup {[d \in {document_id(1)} |-> tv] :
                                             tv \in TermVectorLists}
          /\ ~indexed => termVectors = <<>>
    /\ documentRows = {[document_id |-> d, txn |-> Committed] :
                          d \in OlderDocuments(KEYWORD_EXTRACTION_THRESHOLD)}
                         \cup {[document_id |-> document_id(1), txn |-> 1]}
    /\ tagRows = {}
    /\ next_tag_id = 1
    /\ documentTagRows = {}
    /\ tagIndex = {}
    /\ blobs = {1}
    /\ client = TRUE
    /\ pc = [s \in Sessions |-> IF s = 1 THEN "elasticsearch_extractor" ELSE "idle"]
    /\ mode = [s \in Sessions |-> IF s = 1 THEN "upload" ELSE ""]
    /\ commit = [s \in Sessions |-> FALSE]
    /\ minio_uploaded = [s \in Sessions |-> s = 1]
    /\ keywords = [s \in Sessions |-> <<>>]
    /\ extraction_method = [s \in Sessions |-> ""]
    /\ unique_names = [s \in Sessions |-> <<>>]
    /\ batch_results = [s \in Sessions |-> <<>>]
    /\ idx = [s \in Sessions |-> 0]
    /\ name = [s \in Sessions |-> <<>>]
    /\ hit = [s \in Sessions |-> 0]
    /\ new_tag = [s \in Sessions |-> None]
    /\ tags = [s \in Sessions |-> <<>>]
    /\ outcome = [s \in Sessions |-> ""]
    /\ exception = [s \in Sessions |-> ""]
    /\ faults = <<>>

\* ElasticsearchExtractor.extract_keywords: extraction_count terms are asked
\* for; any exception of the backend gives the empty list
ExtractSignificantTerms(s) ==
    /\ pc[s] = "elasticsearch_extractor"
    /\ \E up \in BOOLEAN :
          /\ Fault(s, "extract_significant_terms", up)
          /\ keywords' = [keywords EXCEPT ![s] =
                IF up THEN extract_significant_terms(document_id(s), extraction_count)
                ELSE <<>>]
    /\ extraction_method' = [extraction_method EXCEPT ![s] = "elasticsearch"]
    /\ Goto(s, "filter_stopwords")
    /\ KeywordsFrame

NextTerms ==
    \E s \in Sessions :
        \/ ExtractSignificantTerms(s)
        \/ FilterStopwords(s)
        \/ Deduplicate(s)
        \/ Truncate(s)

SpecTerms == InitTerms /\ [][NextTerms]_vars

----------------------------------------------------------------------------
(* The TagService entry points on raw names                                 *)

\* raw tag names: the case variants of two ASCII names, a padded name, a
\* stopword, a hyphenated name, a Hangul name, a name with a digit and a
\* name with a Kelvin sign
RawNames ==
    { cloud, <<"C", "l", "o", "u", "d">>, <<"C", "L", "O", "U", "D">>,
      <<" ", "c", "l", "o", "u", "d">>, lower(Ai), <<"A", "I">>,
      <<"t", "h", "e">>, <<"a", "i", "-", "d", "b">>, Seoul,
      <<"A", "i", "2">>, <<KelvinSign, "i">> }

\* the lists of names handed to get_or_create_tags: every short list, and
\* the list of test_get_or_create_tags_with_duplicates
RawNameLists ==
    UNION {[1..n -> RawNames] : n \in 0..MaxKeywords}
        \cup { <<cloud, <<"C", "l", "o", "u", "d">>, <<"C", "L", "O", "U", "D">>,
                 lower(Ai), <<"A", "I">>>> }

\* either attach_tags_to_document is called for a document whose row is
\* pending, or a caller of get_or_create_tag starts on an empty store
InitNames ==
    /\ \E batch \in BOOLEAN :
          /\ pc = [s \in Sessions |-> IF s > 1 THEN "done"
                                      ELSE IF batch THEN "get_or_create_tags"
                                      ELSE "idle"]
          /\ mode = [s \in Sessions |-> IF s = 1 /\ batch THEN "upload" ELSE ""]
          /\ keywords \in [Sessions -> RawNameLists]
          /\ \A s \in Sessions : (s > 1 \/ ~batch) => keywords[s] = <<>>
          /\ documentRows = IF batch THEN {[document_id |-> document_id(1), txn |-> 1]}
                            ELSE {}
          /\ documentIndex = IF batch THEN {document_id(1)} ELSE {}
          /\ termVectors = <<>>
          /\ blobs = IF batch THEN {1} ELSE {}
          /\ minio_uploaded = [s \in Sessions |-> s = 1 /\ batch]
          /\ extraction_method = [s \in Sessions |->
                                    IF s = 1 /\ batch THEN "keybert" ELSE ""]
    /\ tagRows = {}
    /\ next_tag_id = 1
    /\ documentTagRows = {}
    /\ tagIndex = {}
    /\ client = TRUE
    /\ commit = [s \in Sessions |-> upload_commit]
    /\ unique_names = [s \in Sessions |-> <<>>]
    /\ batch_results = [s \in Sessions |-> <<>>]
    /\ idx = [s \in Sessions |-> 0]
    /\ name = [s \in Sessions |-> <<>>]
    /\ hit = [s \in Sessions |-> 0]
    /\ new_tag = [s \in Sessions |-> None]
    /\ tags = [s \in Sessions |-> <<>>]
    /\ outcome = [s \in Sessions |-> ""]
    /\ exception = [s \in Sessions |-> ""]
    /\ faults = <<>>

\* TagService.get_or_create_tag on a raw name
GetOrCreateRawTag(s) == GetOrCreateTagOf(s, RawNames)

NextNames ==
    \E s \in Sessions :
        \/ GetOrCreateTags(s)
        \/ GetOrCreateRawTag(s)
        \/ FindByName(s)
        \/ FindSimilarTag(s)
        \/ FindById(s)
        \/ Create(s)
        \/ IndexTag(s)
        \/ BulkCreate(s)
        \/ Commit(s)
        \/ Refresh(s)
        \/ Rollback(s)
        \/ CloseSession(s)

SpecNames == InitNames /\ [][NextNames]_vars

----------------------------------------------------------------------------
(* scripts/migrate_tags_to_elasticsearch.py: the reconciliation of the Tag  *)
(* Index with the tags table                                                *)

\* tags in the table when the script is started
MaxTags == 2

\* the names of the tags in the table, by tag_id
TagNames == <<Ai, Db, Ml, Dl>>

\* Tag.embedding is nullable: NULL
NoEmbedding == <<>>

\* the script runs on session 1 (mode "migrate"); its local tags is the
\* variable tags, its loop index the variable idx, its two counters are
\* kept in batch_results.  The tags of the table are committed; some have no
\* embedding; the mirror of some failed when they were created (every such
\* failure is in the log); the index may hold the entry of a tag that was
\* rolled back.
InitMigrate ==
    /\ \E present \in SUBSET (1..MaxTags) :
       \E embedded \in SUBSET present :
       \E mirrored \in SUBSET embedded, orphan \in BOOLEAN :
          /\ Cardinality(embedded \ mirrored) <= MaxFaults
          /\ tagRows = {[tag_id |-> i, name |-> TagNames[i],
                         embedding |-> IF i \in embedded THEN encode(TagNames[i])
                                       ELSE NoEmbedding,
                         txn |-> Committed] : i \in present}
          /\ tagIndex = {[tag_id |-> i, name |-> TagNames[i],
                          embedding |-> encode(TagNames[i])] : i \in mirrored}
                           \cup (IF orphan
                                 THEN {[tag_id |-> MaxTags + 1,
                                        name |-> TagNames[MaxTags + 1],
                                        embedding |-> encode(TagNames[MaxTags + 1])]}
                                 ELSE {})
          /\ faults = [k \in 1..Cardinality(embedded \ mirrored) |-> <<2, "index_tag">>]
    /\ next_tag_id = MaxTags + 2
    /\ documentRows = {}
    /\ documentTagRows = {}
    /\ documentIndex = {}
    /\ termVectors = <<>>
    /\ blobs = {}
    /\ client = FALSE
    /\ pc = [s \in Sessions |-> IF s = 1 THEN "connect" ELSE "done"]
    /\ mode = [s \in Sessions |-> IF s = 1 THEN "migrate" ELSE ""]
    /\ commit = [s \in Sessions |-> FALSE]
    /\ minio_uploaded = [s \in Sessions |-> FALSE]
    /\ keywords = [s \in Sessions |-> <<>>]
    /\ extraction_method = [s \in Sessions |-> ""]
    /\ unique_names = [s \in Sessions |-> <<>>]
    /\ batch_results = [s \in Sessions |-> <<>>]
    /\ idx = [s \in Sessions |-> 0]
    /\ name = [s \in Sessions |-> <<>>]
    /\ hit = [s \in Sessions |-> 0]
    /\ new_tag = [s \in Sessions |-> None]
    /\ tags = [s \in Sessions |-> <<>>]
    /\ outcome = [s \in Sessions |-> ""]
    /\ exception = [s \in Sessions |-> ""]

\* what the script leaves alone
MigrateFrame ==
    UNCHANGED <<dbVars, documentIndex, termVectors, blobs, uploadVars, unique_names, name, hit,
                new_tag>>

\* tags_data: the loaded tags that have an embedding, in the order loaded
tags_data(loaded) == SelectSeq(loaded, LAMBDA t : t.embedding /= NoEmbedding)

\* steps 1-2 of main (the script may be run again): connect and make sure
\* the index exists; a failure ends the script
Connect(s) ==
    /\ mode[s] = "migrate" /\ pc[s] \in {"connect", "done"}
    /\ \E up \in BOOLEAN :
          /\ Fault(s, "connect", up)
          /\ IF up
             THEN /\ client' = TRUE
                  /\ Goto(s, "load")
                  /\ UNCHANGED outcome
             ELSE /\ Goto(s, "done")
                  /\ outcome' = [outcome EXCEPT ![s] = "error"]
                  /\ UNCHANGED client
    /\ tags' = [tags EXCEPT ![s] = <<>>]
    /\ idx' = [idx EXCEPT ![s] = 0]
    /\ batch_results' = [batch_results EXCEPT ![s] = <<>>]
    /\ UNCHANGED tagIndex
    /\ MigrateFrame

\* step 3 of main: select every tag (in any order) and keep those with an
\* embedding; without a tag to index the script ends
LoadTags(s) ==
    /\ pc[s] = "load"
    /\ \E loaded \in OrdersOf({Tag(r) : r \in View(s)}) :
          /\ tags' = [tags EXCEPT ![s] = loaded]
          /\ IF tags_data(loaded) = <<>>
             THEN /\ Goto(s, "done")
                  /\ outcome' = [outcome EXCEPT ![s] = "ok"]
                  /\ UNCHANGED <<idx, batch_results>>
             ELSE /\ Goto(s, "index_tags")
                  /\ idx' = [idx EXCEPT ![s] = 1]
                  /\ batch_results' = [batch_results EXCEPT ![s] =
                                         [success_count |-> 0, failed_count |-> 0]]
                  /\ UNCHANGED outcome
    /\ UNCHANGED <<tagIndex, client, faults>>
    /\ MigrateFrame

\* step 4 of main, one iteration of the loop: index_tag returns False when
\* the index call fails; after the last tag the script ends
IndexTagData(s) ==
    /\ pc[s] = "index_tags"
    /\ LET tag_data == tags_data(tags[s])[idx[s]]
           last == idx[s] = Len(tags_data(tags[s]))
       IN  \E success \in BOOLEAN :
              /\ Fault(s, "index_tag", success)
              /\ tagIndex' = IF success THEN index_tag(tagIndex, tag_data) ELSE tagIndex
              /\ batch_results' = [batch_results EXCEPT ![s] =
                    IF success THEN [@ EXCEPT !.success_count = @ + 1]
                    ELSE [@ EXCEPT !.failed_count = @ + 1]]
              /\ idx' = [idx EXCEPT ![s] = IF last THEN @ ELSE @ + 1]
              /\ Goto(s, IF last THEN "done" ELSE "index_tags")
              /\ outcome' = [outcome EXCEPT ![s] =
                    IF ~last THEN @
                    ELSE IF batch_results'[s].failed_count > 0 THEN "failed" ELSE "ok"]
    /\ UNCHANGED <<tags, client>>
    /\ MigrateFrame

NextMigrate ==
    \E s \in Sessions :
        \/ Connect(s)
        \/ LoadTags(s)
        \/ IndexTagData(s)

SpecMigrate == InitMigrate /\ [][NextMigrate]_vars

----------------------------------------------------------------------------
(* EmbeddingService.compute_similarity and find_most_similar                *)

\* np.linalg.norm on the vectors of the model, whose norms are integers
Norm(v) == CHOOSE n \in 0..Dot(v, v) : n * n = Dot(v, v)

\* EmbeddingService.compute_similarity: the cosine similarity, in thousandths
compute_similarity(embedding1, embedding2) ==
    IF Norm(embedding1) = 0 \/ Norm(embedding2) = 0 THEN 0
    ELSE (1000 * Dot(embedding1, embedding2)) \div (Norm(embedding1) * Norm(embedding2))

\* the loop of find_most_similar over the first k candidates
RECURSIVE most_similar(_, _, _)
most_similar(query_embedding, candidate_embeddings, k) ==
    IF k = 0 THEN [max_similarity |-> -1000, max_index |-> -1]
    ELSE LET before == most_similar(query_embedding, candidate_embeddings, k - 1)
             similarity == compute_similarity(query_embedding, candidate_embeddings[k])
         IN  IF similarity > before.max_similarity
             THEN [max_similarity |-> similarity, max_index |-> k - 1]
             ELSE before

\* EmbeddingService.find_most_similar; the threshold is given in tenths
find_most_similar(query_embedding, candidate_embeddings, threshold) ==
    IF candidate_embeddings = <<>> THEN <<-1, 0>>
    ELSE LET found == most_similar(query_embedding, candidate_embeddings,
                                   Len(candidate_embeddings))
         IN  IF found.max_similarity >= 100 * threshold
             THEN <<found.max_index, found.max_similarity>>
             ELSE <<-1, 0>>

\* a caller ranks the names of unique_names against the name in name; the
\* result is kept in batch_results
InitSimilar ==
    /\ name \in [Sessions -> Vocabulary \cup {cloud, <<>>}]
    /\ unique_names \in [Sessions ->
          UNION {[1..n -> Vocabulary \cup {cloud}] : n \in 0..MaxCandidates}]
    /\ \A s \in Sessions : s > 1 => name[s] = <<>> /\ unique_names[s] = <<>>
    /\ name[1] /= <<>>
    /\ pc = [s \in Sessions |-> IF s = 1 THEN "find_most_similar" ELSE "done"]
    /\ mode = [s \in Sessions |-> IF s = 1 THEN "rank" ELSE ""]
    /\ tagRows = {}
    /\ next_tag_id = 1
    /\ documentRows = {}
    /\ documentTagRows = {}
    /\ tagIndex = {}
    /\ documentIndex = {}
    /\ termVectors = <<>>
    /\ blobs = {}
    /\ client = FALSE
    /\ commit = [s \in Sessions |-> FALSE]
    /\ minio_uploaded = [s \in Sessions |-> FALSE]
    /\ keywords = [s \in Sessions |-> <<>>]
    /\ extraction_method = [s \in Sessions |-> ""]
    /\ batch_results = [s \in Sessions |-> <<>>]
    /\ idx = [s \in Sessions |-> 0]
    /\ hit = [s \in Sessions |-> 0]
    /\ new_tag = [s \in Sessions |-> None]
    /\ tags = [s \in Sessions |-> <<>>]
    /\ outcome = [s \in Sessions |-> ""]
    /\ exception = [s \in Sessions |-> ""]
    /\ faults = <<>>

\* the embeddings of the candidates
candidate_embeddings_of(s) ==
    [i \in DOMAIN unique_names[s] |-> encode(unique_names[s][i])]

FindMostSimilar(s) ==
    /\ pc[s] = "find_most_similar"
    /\ batch_results' = [batch_results EXCEPT ![s] =
          find_most_similar(encode(name[s]), candidate_embeddings_of(s),
                            similarity_threshold)]
    /\ Goto(s, "done")
    /\ UNCHANGED <<dbVars, esVars, blobs, uploadVars, unique_names, idx, name, hit,
                   new_tag, tags, outcome, faults>>

NextSimilar == \E s \in Sessions : FindMostSimilar(s)

SpecSimilar == InitSimilar /\ [][NextSimilar]_vars

----------------------------------------------------------------------------
(* Properties                                                               *)

\* cosine distance of the two names strictly below 1 - similarity_threshold
Near(a, b) == ScoreAbove(encode(a), encode(b), similarity_threshold)

\* the tags a running call of session s has obtained so far
Log(s) == tags[s]

\* C1: in one batch of get_or_create_tags, with no failed call, two distinct
\* names within the similarity threshold of each other never both end with a
\* newly created tag: the later one resolves to the tag created for the
\* earlier one.
C1_BatchNearDuplicatesShareTag ==
    \A s \in Sessions : \A i, j \in DOMAIN Log(s) :
        (/\ mode[s] = "upload" /\ faults = <<>> /\ i < j
         /\ Near(Log(s)[i].query, Log(s)[j].query)
         /\ Log(s)[i].how = "created")
        => Log(s)[j].how /= "created"

\* C2 as stated: two names within the similarity threshold of each other,
\* resolved one after the other through get_or_create with no failed call,
\* get the same tag.
C2_SequentialNearNamesShareTag ==
    \A s \in Sessions : \A i, j \in DOMAIN Log(s) :
        (/\ mode[s] = "single" /\ faults = <<>> /\ i < j
         /\ Near(Log(s)[i].query, Log(s)[j].query))
        => Log(s)[j].tag_id = Log(s)[i].tag_id

\* no entry of the Tag Index other than the tag of entry i (and a tag that
\* the resolve of entry j created itself) is within the threshold of the
\* name of entry j
OnlyNeighbour(s, i, j) ==
    \A e \in tagIndex :
        (/\ e.tag_id /= Log(s)[i].tag_id
         /\ ~(Log(s)[j].how = "created" /\ e.tag_id = Log(s)[j].tag_id))
        => ~ScoreAtLeast(encode(Log(s)[j].query), e.embedding, similarity_threshold)

\* C2 amended: when n1 was resolved by creating a tag, no tag named n2 is
\* found, no call fails and the Tag Index holds no other entry within the
\* threshold of n2, resolving n2 after n1 through get_or_create returns the
\* tag created for n1 and creates nothing.
C2_NearNameReusesCreatedTag ==
    \A s \in Sessions : \A i, j \in DOMAIN Log(s) :
        (/\ mode[s] = "single" /\ faults = <<>> /\ i < j
         /\ Near(Log(s)[i].query, Log(s)[j].query)
         /\ Log(s)[i].how = "created" /\ Log(s)[j].how /= "exact"
         /\ OnlyNeighbour(s, i, j))
        => /\ Log(s)[j].tag_id = Log(s)[i].tag_id
           /\ Log(s)[j].how = "similar"

\* C2 witness: a second name was resolved to the tag created for a first,
\* similar name
C2_Witness ==
    \E s \in Sessions :
        /\ mode[s] = "single" /\ faults = <<>> /\ Len(Log(s)) = 2
        /\ Near(Log(s)[1].query, Log(s)[2].query)
        /\ Log(s)[1].how = "created" /\ Log(s)[2].how = "similar"
        /\ Log(s)[2].tag_id = Log(s)[1].tag_id
        /\ OnlyNeighbour(s, 1, 2)

\* resolving one name twice in a session returns the same tag both times,
\* and at most one of the two resolves creates a tag
SameNameSameTag ==
    \A s \in Sessions : \A i, j \in DOMAIN Log(s) :
        (i < j /\ Log(s)[i].query = Log(s)[j].query)
        => /\ Log(s)[j].tag_id = Log(s)[i].tag_id
           /\ ~(Log(s)[i].how = "created" /\ Log(s)[j].how = "created")

\* once a resolve of n has returned the tag named n, every later resolve of
\* n in the session returns that tag by the exact lookup
NamedTagIsKept ==
    \A s \in Sessions : \A i, j \in DOMAIN Log(s) :
        (/\ i < j /\ Log(s)[i].query = Log(s)[j].query
         /\ Log(s)[i].name = Log(s)[i].query)
        => /\ Log(s)[j].tag_id = Log(s)[i].tag_id
           /\ Log(s)[j].how = "exact"

\* a step of the exact lookup that finds a tag of the name in the session's
\* view returns that tag, without a similarity search and without an INSERT
ExactLookupIsTerminal ==
    \A s \in Sessions :
        (/\ pc[s] = "find_by_name"
         /\ (pc'[s] /= pc[s] \/ tags'[s] /= tags[s])
         /\ \E r \in View(s) : r.name = name[s])
        => /\ tags'[s] /= <<>>
           /\ \E r \in View(s) :
                /\ r.name = name[s]
                /\ tags'[s] = Append(tags[s], [tag_id |-> r.tag_id, name |-> r.name,
                                               query |-> name[s], how |-> "exact"])
           /\ pc'[s] \notin {"search", "find_by_id", "create", "rollback"}
           /\ tagRows' = tagRows
           /\ hit'[s] = hit[s]

\* C3 as stated: resolving a name twice returns the same tag both times and
\* creates at most one tag, and the exact lookup is terminal on both paths.
C3_ExactLookupIdempotent == []SameNameSameTag /\ [][ExactLookupIsTerminal]_vars

\* C3 amended: whenever a tag named n is visible to the caller, both paths
\* return it without a similarity result and without creating a tag; once a
\* resolve of n has returned the tag named n (found or created), resolving n
\* again in the session returns the same tag and creates nothing.
C3_ExactLookupTerminal == []NamedTagIsKept /\ [][ExactLookupIsTerminal]_vars

\* C3 witness: a session's second resolve of a name found, by the exact
\* lookup, the tag its first resolve had created
C3_Witness ==
    \E s \in Sessions :
        /\ Len(Log(s)) = 2
        /\ Log(s)[1].query = Log(s)[2].query
        /\ Log(s)[1].how = "created" /\ Log(s)[2].how = "exact"
        /\ Log(s)[2].tag_id = Log(s)[1].tag_id

\* C4: a name never resolves to the tag of a name at cosine distance
\* >= 1 - similarity_threshold (the boundary included): a similarity hit is
\* used only when its distance is strictly below 1 - similarity_threshold.
C4_FarNamesStayDistinct ==
    \A s \in Sessions : \A i \in DOMAIN Log(s) :
        (faults = <<>> /\ Log(s)[i].name /= Log(s)[i].query)
        => Near(Log(s)[i].query, Log(s)[i].name)

\* C5: no two committed rows of the tags table have the same name.
C5_CommittedNamesUnique ==
    \A r, q \in tagRows :
        (r.txn = Committed /\ q.txn = Committed /\ r.name = q.name) => r = q

\* C5 witness: an INSERT of a name that a committed tag already has was
\* rejected
C5_Witness ==
    \E s \in Sessions :
        /\ exception[s] = "IntegrityError tags.name"
        /\ \E r \in tagRows : r.txn = Committed /\ r.name = name[s]

\* C6: of two concurrent uploads that both INSERT the same tag name, with no
\* failed external call, the loser is not failed by the unique violation:
\* the violation is caught and the upload goes on with the winner's tag.
C6_UniqueViolationIsCaught ==
    \A s \in Sessions :
        (faults = <<>> /\ \A t \in Sessions : mode[t] = "upload")
        => exception[s] /= "IntegrityError tags.name"

\* the distinct elements of a sequence, in the order of their first occurrence
RECURSIVE FirstOccurrences(_)
FirstOccurrences(seq) ==
    IF seq = <<>> THEN <<>>
    ELSE LET front == FirstOccurrences(SubSeq(seq, 1, Len(seq) - 1)) IN
         IF seq[Len(seq)] \in Range(front) THEN front
         ELSE Append(front, seq[Len(seq)])

\* C7: the i-th tag that get_or_create_tags returns is the resolution of the
\* i-th distinct input name.
C7_BatchKeepsInputOrder ==
    \A s \in Sessions : \A i \in DOMAIN Log(s) :
        (mode[s] = "upload" /\ faults = <<>>)
        => Log(s)[i].query = FirstOccurrences(normalized_names(keywords[s]))[i]

\* a step in which the similarity search of session s fails (single search
\* or batch search) yields no match and does not raise: the single path goes
\* on to CREATE, the batch goes on with an empty result for every name
SearchFailureIsNoMatch ==
    \A s \in Sessions :
        /\ faults' = Append(faults, <<s, "search_similar_tags">>)
              => pc'[s] = "create" /\ exception'[s] = "" /\ tagRows' = tagRows
        /\ faults' = Append(faults, <<s, "search_similar_tags_batch">>)
              => /\ pc'[s] = "find_by_name" /\ exception'[s] = ""
                 /\ batch_results'[s] /= <<>>
                 /\ \A i \in DOMAIN batch_results'[s] : batch_results'[s][i] = <<>>

\* in the batch, a name without a pre-fetched hit is never resolved to a
\* similar tag: it gets the tag of its own name, found or created
NoHitMeansOwnTag ==
    \A s \in Sessions : \A i \in DOMAIN Log(s) :
        (mode[s] = "upload" /\ batch_results[s][i] = <<>>)
        => Log(s)[i].how \in {"exact", "created"}

\* C8: a failure of the similarity search (single or batch) means "no match":
\* the resolve goes on to CREATE and the upload is not aborted.
C8_SearchFailureDegradesToCreate ==
    []NoHitMeansOwnTag /\ [][SearchFailureIsNoMatch]_vars

\* C8 witness: an upload whose batch search failed has resolved its names
\* and is about to commit; it created a tag for a name although the Tag
\* Index holds a committed tag within the threshold of that name
C8_Witness ==
    \E s \in Sessions :
        /\ mode[s] = "upload" /\ pc[s] = "commit" /\ exception[s] = ""
        /\ faults = <<<<s, "search_similar_tags_batch">>>>
        /\ \E i \in DOMAIN Log(s) :
              /\ Log(s)[i].how = "created"
              /\ \E e \in tagIndex :
                    /\ Near(Log(s)[i].query, e.name)
                    /\ \E r \in tagRows : r.tag_id = e.tag_id /\ r.txn = Committed

\* a step in which the mirroring of a newly created tag fails returns the
\* tag to the caller, raises nothing and leaves the tag's row in the table
MirrorFailureIsSwallowed ==
    \A s \in Sessions :
        faults' = Append(faults, <<s, "index_tag">>)
        => /\ tags'[s] = Append(tags[s], [tag_id |-> new_tag[s].tag_id,
                                          name |-> new_tag[s].name,
                                          query |-> name[s], how |-> "created"])
           /\ exception'[s] = "" /\ pc'[s] /= "rollback"
           /\ tagRows' = tagRows
           /\ \E r \in tagRows' : r.tag_id = new_tag[s].tag_id /\ r.name = name[s]

\* C9: a failed mirroring of a new tag is not raised to the caller of
\* TagRepository.create and does not undo the creation: the tag is returned
\* and stays in the primary store.
C9_MirrorFailureKeepsTag == [][MirrorFailureIsSwallowed]_vars

\* C9 witness: a tag was returned as created, its row is in the table and
\* the Tag Index has no entry for it
C9_Witness ==
    \E s \in Sessions : \E i \in DOMAIN Log(s) :
        /\ Log(s)[i].how = "created"
        /\ \E r \in tagRows : r.tag_id = Log(s)[i].tag_id
        /\ Log(s)[i].tag_id \notin {e.tag_id : e \in tagIndex}
        /\ faults = <<<<s, "index_tag">>>> /\ exception[s] = ""

\* C10: when uploads are the only requests that have run and no external
\* call has failed, every entry of the Tag Index has its tag_id in the tags
\* table, also after the rollback of an upload that had created tags.
C10_NoOrphanedMirrorEntry ==
    (faults = <<>> /\ \A s \in Sessions : mode[s] /= "single")
    => \A e \in tagIndex : \E r \in tagRows : r.tag_id = e.tag_id

\* the tags an upload has created so far in its transaction
CreatedBy(s) ==
    {Log(s)[i].tag_id : i \in {j \in DOMAIN Log(s) : Log(s)[j].how = "created"}}
        \cup (IF new_tag[s] /= None THEN {new_tag[s].tag_id} ELSE {})

\* every write of the upload of session s to the primary store is pending
\* in its transaction
WritesPending(s) ==
    /\ \A r \in documentRows : r.document_id = document_id(s) => r.txn = s
    /\ \A r \in documentTagRows : r.document_id = document_id(s) => r.txn = s
    /\ \A r \in tagRows : r.tag_id \in CreatedBy(s) => r.txn = s

\* the primary store holds nothing of the upload of session s
NothingLeft(s) ==
    /\ \A r \in documentRows : r.document_id /= document_id(s) /\ r.txn /= s
    /\ \A r \in documentTagRows : r.document_id /= document_id(s) /\ r.txn /= s
    /\ \A r \in tagRows : r.txn /= s

\* the external calls whose failure is raised to upload_document
RaisedCalls ==
    {"upload_file", "document_repository.create", "extract_text_from_file",
     "_load_model", "encode", "refresh"}

\* an exception raised after the blob was stored and before the commit is
\* on its way to the except branch of the upload of session s
RaisedAfterBlob(s) ==
    /\ mode[s] = "upload" /\ pc[s] = "rollback" /\ minio_uploaded[s]
    /\ <<s, "refresh">> \notin Range(faults)

\* the upload of session s has ended with an error raised before its commit
FailedUpload(s) ==
    /\ mode[s] = "upload" /\ pc[s] = "done" /\ outcome[s] = "error"
    /\ <<s, "refresh">> \notin Range(faults)

\* C11: when an exception is raised in upload_document after the blob was
\* stored (document insert, text extraction, indexing, keyword extraction,
\* tag resolution), every write of the upload to the primary store is still
\* pending and the except branch discards it; the blob is deleted unless the
\* deletion itself failed; the upload ends with an error, whether or not
\* the deletion failed, and never with a success after a raised failure.
C11_FailureRollsBackUpload ==
    \A s \in Sessions :
        /\ RaisedAfterBlob(s) => WritesPending(s) /\ s \in blobs
        /\ FailedUpload(s) =>
              /\ NothingLeft(s)
              /\ s \in blobs => <<s, "delete_file">> \in Range(faults)
        /\ (mode[s] = "upload" /\ outcome[s] = "ok") =>
              \A i \in DOMAIN faults :
                  faults[i][1] = s => faults[i][2] \notin RaisedCalls

\* C11 witness: an upload that had created a tag ended with an error; its
\* tag is gone from the table, and the deletion of its blob failed
C11_Witness ==
    \E s \in Sessions :
        /\ FailedUpload(s) /\ NothingLeft(s)
        /\ s \in blobs /\ faults = <<<<s, "delete_file">>>>
        /\ Cardinality(tagRows) < next_tag_id - 1

\* the exceptions raised by the embedding or the resolution of a keyword
\* and by the attachment of the resolved tags
TagStageExceptions ==
    {"RuntimeError", "IntegrityError tags.name", "DeadlockDetected",
     "IntegrityError document_tags.pkey"}

\* the document_tags rows of the upload of session s
AttachedTo(s) == {r \in documentTagRows : r.document_id = document_id(s)}

\* C12: the tag set of a document is all or nothing.  When the embedding
\* or the resolution of a keyword of an upload fails, the tags the upload
\* has created are uncommitted and no tag is attached yet; an upload that
\* ended with an error before its commit has no document-tag row and no
\* tag row of its own left; an upload reaches its commit with tags only
\* when every name of the batch has been resolved and attached.
C12_TagSetAllOrNothing ==
    \A s \in Sessions :
        /\ (mode[s] = "upload" /\ pc[s] = "rollback"
                /\ exception[s] \in TagStageExceptions) =>
              /\ \A r \in tagRows : r.tag_id \in CreatedBy(s) => r.txn = s
              /\ AttachedTo(s) = {}
        /\ FailedUpload(s) =>
              /\ AttachedTo(s) = {}
              /\ \A r \in tagRows : r.txn /= s
        /\ (mode[s] = "upload" /\ pc[s] = "commit" /\ unique_names[s] /= <<>>) =>
              /\ Len(Log(s)) = Len(unique_names[s])
              /\ \A i \in DOMAIN Log(s) : Log(s)[i].query = unique_names[s][i]
              /\ {r.tag_id : r \in AttachedTo(s)} = {Log(s)[i].tag_id : i \in DOMAIN Log(s)}

\* C12 witness: a later keyword of a batch failed after an earlier one had
\* a tag created for it, which is still uncommitted
C12_Witness ==
    \E s \in Sessions :
        /\ mode[s] = "upload" /\ pc[s] = "rollback"
        /\ exception[s] = "IntegrityError tags.name"
        /\ CreatedBy(s) /= {}
        /\ \A r \in tagRows : r.tag_id \in CreatedBy(s) => r.txn = s
        /\ Len(Log(s)) < Len(unique_names[s])

\* the count that get_document_count hands to extract_keywords in a step
\* of session s: 0 when the count fails
CountIn(s) ==
    IF faults' = Append(faults, <<s, "get_document_count">>) THEN 0
    ELSE Cardinality(documentIndex)

\* the choice of the extractor and the label of the extractor that ran
ExtractorFollowsCount ==
    \A s \in Sessions :
        /\ (pc[s] = "extract_keywords" /\ pc'[s] /= pc[s]) =>
              /\ pc'[s] \in {"keybert_extractor", "elasticsearch_extractor"}
              /\ pc'[s] = "keybert_extractor"
                    <=> CountIn(s) < KEYWORD_EXTRACTION_THRESHOLD
              /\ pc'[s] = "elasticsearch_extractor"
                    <=> CountIn(s) >= KEYWORD_EXTRACTION_THRESHOLD
        /\ (pc[s] \in {"keybert_extractor", "elasticsearch_extractor"}
                /\ pc'[s] = "filter_stopwords") =>
              extraction_method'[s] = (IF pc[s] = "keybert_extractor" THEN "keybert"
                                       ELSE "elasticsearch")
        /\ (pc[s] \notin {"extract_keywords", "keybert_extractor",
                           "elasticsearch_extractor"}) =>
              /\ pc'[s] \notin {"keybert_extractor", "elasticsearch_extractor"}
              /\ extraction_method'[s] = extraction_method[s]

\* C13: extract_keywords runs the Cold-Start extractor (KeyBERT) exactly
\* when the document count it obtained is below the threshold and the
\* Corpus-Relative extractor (Elasticsearch) exactly when the count is at
\* least the threshold; one extractor runs per call, once, and the method
\* label returned is the label of the extractor that ran.
C13_ExtractorChosenByThreshold == [][ExtractorFollowsCount]_vars

\* C13 witness: with 5 documents indexed, the threshold, the keywords came
\* from the Corpus-Relative extractor
C13_Witness ==
    \E s \in Sessions :
        /\ Cardinality(documentIndex) = KEYWORD_EXTRACTION_THRESHOLD
        /\ faults = <<>>
        /\ pc[s] = "filter_stopwords" /\ extraction_method[s] = "elasticsearch"
        /\ keywords[s] /= <<>>

\* the positions of a keyword list whose key (trimmed, lower-cased) is not
\* empty and occurs at no earlier position
FirstSeen(kws) ==
    {i \in DOMAIN kws :
        /\ lower(strip(kws[i])) /= <<>>
        /\ \A j \in 1..(i - 1) : lower(strip(kws[j])) /= lower(strip(kws[i]))}

\* the k-th smallest element of a set of positions
Kth(S, k) == CHOOSE i \in S : Cardinality({j \in S : j <= i}) = k

\* the deduplication step keeps the first occurrence of every key, in the
\* order of the input and in the casing of the input
DeduplicateKeepsCasing ==
    \A s \in Sessions :
        (pc[s] = "deduplicate" /\ pc'[s] = "truncate") =>
            /\ Len(keywords'[s]) = Cardinality(FirstSeen(keywords[s]))
            /\ \A k \in DOMAIN keywords'[s] :
                  keywords'[s][k] = keywords[s][Kth(FirstSeen(keywords[s]), k)]

\* C14: the orchestrator deduplicates the filtered keywords by their
\* trimmed lower-case form, keeps the order of first occurrence and emits
\* each keyword in the casing of its first occurrence.
C14_DedupKeepsFirstCasing == [][DeduplicateKeepsCasing]_vars

\* the truncation step returns the first KEYWORD_EXTRACTION_COUNT keywords
\* of the deduplicated list, or all of them when there are fewer
TruncateTakesPrefix ==
    \A s \in Sessions :
        (pc[s] = "truncate" /\ pc'[s] /= pc[s]) =>
            /\ Len(keywords'[s]) <= KEYWORD_EXTRACTION_COUNT
            /\ Len(keywords'[s]) <= Len(keywords[s])
            /\ \A k \in DOMAIN keywords'[s] : keywords'[s][k] = keywords[s][k]
            /\ Len(keywords'[s]) < KEYWORD_EXTRACTION_COUNT => keywords'[s] = keywords[s]

\* C15: the final keyword list has at most KEYWORD_EXTRACTION_COUNT
\* entries and is the prefix of that length (or the whole) of the filtered,
\* deduplicated candidates; extract_keywords returns nothing longer.
C15_FinalListIsBoundedPrefix ==
    /\ [][TruncateTakesPrefix]_vars
    /\ [](\A s \in Sessions :
            pc[s] \in {"commit", "get_or_create_tags"}
                => Len(keywords[s]) <= KEYWORD_EXTRACTION_COUNT)

\* C15 witness: more than KEYWORD_EXTRACTION_COUNT candidates survived the
\* filter and the deduplication, and three were returned
C15_Witness ==
    \E s \in Sessions :
        /\ pc[s] = "get_or_create_tags"
        /\ keywords[s] = <<lower(Ai), lower(Ml), lower(Db)>>

\* a failing extractor hands the empty list to the orchestrator and raises
\* nothing, and an empty list stays empty through the later steps
ExtractionIsBestEffort ==
    \A s \in Sessions :
        /\ (pc[s] \in {"keybert_extractor", "elasticsearch_extractor"}
                /\ pc'[s] /= pc[s]) =>
              /\ pc'[s] = "filter_stopwords" /\ exception'[s] = ""
              /\ faults' /= faults => keywords'[s] = <<>>
        /\ (pc[s] \in {"filter_stopwords", "deduplicate", "truncate"}
                /\ pc'[s] /= pc[s] /\ keywords[s] = <<>>) =>
              /\ keywords'[s] = <<>> /\ exception'[s] = ""

\* C16: keyword extraction is best effort.  A failure of either extractor
\* (model unavailable, extraction error, no document_id, no term vectors,
\* backend error) gives the empty list and raises nothing, and an empty
\* candidate list goes through the orchestrator to an empty final list.
C16_ExtractionNeverRaises == [][ExtractionIsBestEffort]_vars

\* C17: an upload that ended successfully with no tag attached to its
\* document (text too short, no keyword extracted, every keyword filtered
\* out) returns the method label "none".
C17_NoKeywordsGivesLabelNone ==
    \A s \in Sessions :
        (/\ mode[s] = "upload" /\ pc[s] = "done" /\ outcome[s] = "ok"
         /\ AttachedTo(s) = {})
        => extraction_method[s] = "none"

\* the description of a stopword: the trimmed, lower-cased token has fewer
\* than 2 characters, or is in one of the two fixed sets, or is all digits
StopwordAsDescribed(token) ==
    LET t == lower(strip(token)) IN
        \/ Len(t) < 2
        \/ Join(t) \in ENGLISH_STOPWORDS \cup KOREAN_STOPWORDS
        \/ (t /= <<>> /\ \A i \in DOMAIN t : t[i] \in Digits)

HasSpace(token) == \E i \in DOMAIN token : token[i] = " "

\* the examples of the description and of test_stopwords_filtering.py
StopwordExamples ==
    { <<"t", "h", "e">>, <<"T", "H", "E">>, <<"a">>, <<"<i>">>, <<"2", "0", "2", "4">> }

KeywordExamples ==
    { cloud, <<"C", "l", "o", "u", "d">>,
      <<"m", "a", "c", "h", "i", "n", "e", " ", "l", "e", "a", "r", "n", "i", "n", "g">> }

\* is_stopword on every candidate that reaches filter_stopwords
IsStopwordAsDescribed ==
    \A s \in Sessions : \A i \in DOMAIN keywords[s] :
        pc[s] = "filter_stopwords" =>
            /\ is_stopword(keywords[s][i]) <=> StopwordAsDescribed(keywords[s][i])
            /\ keywords[s][i] \in StopwordExamples => is_stopword(keywords[s][i])
            /\ keywords[s][i] \in KeywordExamples => ~is_stopword(keywords[s][i])

\* filter_stopwords keeps a single word without a particle exactly when
\* the word is not a stopword as described
FilterDropsStopwords ==
    \A s \in Sessions : \A i \in DOMAIN keywords[s] :
        (/\ pc[s] = "filter_stopwords" /\ pc'[s] = "deduplicate"
         /\ ~HasSpace(strip(keywords[s][i]))
         /\ remove_particle(keywords[s][i]) = strip(keywords[s][i]))
        => (strip(keywords[s][i]) \in Range(keywords'[s])
                <=> ~StopwordAsDescribed(keywords[s][i]))

\* C18: is_stopword(token) is true exactly when the trimmed, lower-cased
\* token is shorter than 2 characters, is in the English or the Korean
\* stopword set, or is all digits, whatever the casing of the token
\* ("the", "THE", "a", "2024" are stopwords; "cloud", "Cloud", "machine
\* learning" are not), and filter_stopwords drops or keeps a word by it.
C18_IsStopword == []IsStopwordAsDescribed /\ [][FilterDropsStopwords]_vars

\* C18 witness: the filter has dropped an upper-case stopword and a number
\* and has kept a capitalised keyword
C18_Witness ==
    \E s \in Sessions :
        /\ pc[s] = "deduplicate" /\ extraction_method[s] = "keybert"
        /\ keywords[s] = << <<"C", "l", "o", "u", "d">> >>
        /\ faults = <<>> /\ Cardinality(documentIndex) = 1

\* a token passes the filter as the description has it: a single word
\* when it is not a stopword, a phrase when one of its words is not
SurvivesAsStated(token) ==
    IF HasSpace(strip(token))
    THEN \E w \in Range(split(token)) : ~is_stopword(w)
    ELSE ~is_stopword(token)

\* a token passes the filter by its particle-stripped form
SurvivesStripped(token) ==
    IF HasSpace(remove_particle(token))
    THEN \E w \in Range(split(remove_particle(token))) : ~is_stopword(w)
    ELSE ~is_stopword(remove_particle(token))

\* a step of filter_stopwords returns, in the order of the input, the
\* particle-stripped form of the tokens that pass
FilterReturns(Survives(_)) ==
    \A s \in Sessions :
        (pc[s] = "filter_stopwords" /\ pc'[s] = "deduplicate") =>
            LET passing == {i \in DOMAIN keywords[s] : Survives(keywords[s][i])} IN
                /\ Len(keywords'[s]) = Cardinality(passing)
                /\ \A k \in DOMAIN keywords'[s] :
                      keywords'[s][k] = remove_particle(keywords[s][Kth(passing, k)])

\* C19 as stated: filter_stopwords returns, in input order, the
\* particle-stripped form of exactly the tokens that survive, where a
\* single-word token survives iff it is not a stopword and a multi-word
\* token survives iff one of its words is not a stopword.
C19_FilterKeepsNonStopwords == [][FilterReturns(SurvivesAsStated)]_vars

\* C19 amended: the test is made on the particle-stripped form of the token:
\* a token whose stripped form is a single word survives iff that form is
\* not a stopword, a token whose stripped form has several words survives
\* iff one of these words is not a stopword.
C19_FilterKeepsNonStopwordForms == [][FilterReturns(SurvivesStripped)]_vars

\* C19 witness: the filter has dropped a phrase of stopwords and kept, in
\* order, a phrase with one meaningful word and a keyword without its particle
C19_Witness ==
    \E s \in Sessions :
        /\ pc[s] = "deduplicate" /\ extraction_method[s] = "elasticsearch"
        /\ keywords[s] = << <<"a", "i", " ", "o", "f">>, Seoul >>
        /\ Cardinality(documentIndex) > KEYWORD_EXTRACTION_THRESHOLD

\* the trailing particle is cut off, the longest matching particle first,
\* when the token has a Hangul syllable and at least 2 characters remain
LongestParticleRemoved(keyword) ==
    LET kw == strip(keyword)
        matching == {i \in DOMAIN KOREAN_PARTICLES :
                        /\ endswith(kw, KOREAN_PARTICLES[i])
                        /\ Len(kw) > Len(KOREAN_PARTICLES[i]) + 1}
        longest == CHOOSE i \in matching :
                        \A j \in matching :
                            Len(KOREAN_PARTICLES[j]) <= Len(KOREAN_PARTICLES[i])
    IN  IF (\E k \in DOMAIN kw : kw[k] \in Hangul) /\ matching /= {}
        THEN SubSeq(kw, 1, Len(kw) - Len(KOREAN_PARTICLES[longest]))
        ELSE kw

\* a step of filter_stopwords emits every token it keeps without its
\* longest trailing particle
FilterStripsLongestParticle ==
    \A s \in Sessions :
        (pc[s] = "filter_stopwords" /\ pc'[s] = "deduplicate") =>
            LET passing == {i \in DOMAIN keywords[s] : SurvivesStripped(keywords[s][i])} IN
                \A k \in DOMAIN keywords'[s] :
                    keywords'[s][k] = LongestParticleRemoved(keywords[s][Kth(passing, k)])

\* C20: remove_particle cuts a trailing Korean particle off a token only
\* when the token has a Hangul syllable and at least 2 characters remain,
\* the longest matching particle first, so that a token ending in a
\* two-syllable particle loses both syllables; any other token is unchanged.
C20_LongestParticleFirst == [][FilterStripsLongestParticle]_vars

\* the normal form of a raw name as described: normalizing again changes
\* nothing; a name of ASCII letters, whitespace and hyphens is title-cased,
\* whatever its casing, any other name is lower-cased
NormalizedAsDescribed(raw) ==
    LET n == normalize_tag_name(raw) IN
        /\ normalize_tag_name(n) = n
        /\ IF is_english(strip(raw))
           THEN n = title(strip(raw)) /\ n = normalize_tag_name(lower(raw))
           ELSE n = lower(strip(raw))

\* C21: normalize_tag_name is idempotent for every input string, all case
\* variants of an ASCII-letter name ("CLOUD", "cloud", "Cloud") normalize to
\* the same title-cased string, and any other string normalizes to its
\* lower-case form: checked on every name get_or_create_tags has normalized.
C21_NormalizeIdempotent ==
    \A s \in Sessions :
        unique_names[s] /= <<>> =>
            \A raw \in Range(valid_names(keywords[s])) :
                /\ normalize_tag_name(raw) \in Range(unique_names[s])
                /\ NormalizedAsDescribed(raw)
                /\ \A other \in Range(valid_names(keywords[s])) :
                      (is_english(raw) /\ lower(raw) = lower(other))
                          => normalize_tag_name(raw) = normalize_tag_name(other)

\* every committed tag with an embedding has its entry in the Tag Index,
\* under its tag_id, with its name and its embedding, and no other entry
\* has that tag_id
ReconciledIndex ==
    \A r \in tagRows :
        (r.txn = Committed /\ r.embedding /= NoEmbedding) =>
            /\ Tag(r) \in tagIndex
            /\ Cardinality({e \in tagIndex : e.tag_id = r.tag_id}) = 1

\* a run of the script that ended without an index failure
ReconciliationConverges ==
    \A s \in Sessions :
        (mode[s] = "migrate" /\ pc[s] = "done" /\ outcome[s] = "ok")
            => ReconciledIndex

\* no step of a run made after such a run changes the index
SecondRunChangesNothing ==
    \A s \in Sessions :
        (mode[s] = "migrate" /\ outcome[s] = "ok") => tagIndex' = tagIndex

\* C22: the reconciliation converges and is idempotent: after a run of
\* migrate_tags_to_elasticsearch.py that completes without index failures,
\* every tag of the primary store that has an embedding has exactly one Tag
\* Index entry, keyed by its tag_id, with the same name and embedding,
\* whatever mirror failures happened before; a second run leaves the index
\* unchanged.
C22_ReconciliationConverges ==
    []ReconciliationConverges /\ [][SecondRunChangesNothing]_vars

\* C22 witness: a run has ended without a failure on a table of two tags
\* with embeddings, one of which had lost its mirror when it was created
C22_Witness ==
    \E s \in Sessions :
        /\ mode[s] = "migrate" /\ pc[s] = "done" /\ outcome[s] = "ok"
        /\ faults = << <<2, "index_tag">> >>
        /\ Len(tags_data(tags[s])) >= 2
        /\ batch_results[s].success_count = Len(tags_data(tags[s]))

\* the distinct normal forms of the names of a list that are neither blank
\* nor stopwords
DistinctNormalized(raws) ==
    {normalize_tag_name(raws[i]) :
        i \in {k \in DOMAIN raws : strip(raws[k]) /= <<>> /\ ~is_stopword(strip(raws[k]))}}

\* the batch has returned: one tag per distinct normal form, each form
\* resolved once, and names that differ only by case or padding share one
BatchCollapsesNames ==
    \A s \in Sessions :
        (mode[s] = "upload" /\ pc[s] = "bulk_create") =>
            /\ Len(tags[s]) = Cardinality(DistinctNormalized(keywords[s]))
            /\ {tags[s][i].query : i \in DOMAIN tags[s]} = DistinctNormalized(keywords[s])
            /\ \A i, j \in DOMAIN keywords[s] :
                  (/\ lower(strip(keywords[s][i])) = lower(strip(keywords[s][j]))
                   /\ ~is_stopword(strip(keywords[s][i])))
                  => Cardinality({k \in DOMAIN tags[s] :
                         tags[s][k].query \in {normalize_tag_name(keywords[s][i]),
                                               normalize_tag_name(keywords[s][j])}}) = 1

\* a batch without a name to resolve returns the empty list and calls
\* neither store
EmptyBatchTouchesNothing ==
    \A s \in Sessions :
        (/\ pc[s] = "get_or_create_tags" /\ pc'[s] /= pc[s]
         /\ DistinctNormalized(keywords[s]) = {})
        => /\ pc'[s] = "bulk_create" /\ tags'[s] = <<>>
           /\ UNCHANGED <<dbVars, esVars, faults>>

TermsOf(s) ==
    IF document_id(s) \in DOMAIN termVectors THEN Range(termVectors[document_id(s)])
    ELSE {}

\* the score of a term of the document
ScoreOf(s, term) == tfidf(CHOOSE t \in TermsOf(s) : t.term = term)

\* a call of the Elasticsearch extractor returns at most extraction_count
\* terms of the document, each of 2 to 30 characters, the highest score
\* first; nothing for a document that is not indexed or has no term
\* vectors; and, when the backend answers, no term that is left out scores
\* higher than a returned one
SignificantTermsAsDescribed ==
    \A s \in Sessions :
        (pc[s] = "elasticsearch_extractor" /\ pc'[s] = "filter_stopwords") =>
            LET out == keywords'[s]
                usable == {t \in TermsOf(s) : 2 <= Len(t.term) /\ Len(t.term) <= 30}
            IN  /\ Len(out) <= extraction_count
                /\ \A i \in DOMAIN out :
                      /\ out[i] \in {t.term : t \in usable}
                      /\ \A j \in DOMAIN out : i /= j => out[i] /= out[j]
                /\ \A i, j \in DOMAIN out :
                      i < j => ScoreOf(s, out[i]) >= ScoreOf(s, out[j])
                /\ (document_id(s) \notin documentIndex \/ TermsOf(s) = {}) => out = <<>>
                /\ (faults' = faults /\ document_id(s) \in documentIndex) =>
                      /\ Len(out) = (IF Cardinality(usable) < extraction_count
                                     THEN Cardinality(usable) ELSE extraction_count)
                      /\ \A t \in usable : \A i \in DOMAIN out :
                            t.term \notin Range(out) => tfidf(t) <= ScoreOf(s, out[i])

\* C24: the corpus-relative extraction (extract_significant_terms) returns
\* at most size = max(3 x target_count, 10) terms, every returned term has a
\* length between 2 and 30, the terms are ordered by non-increasing score,
\* and the result is empty when the document or its term vectors are not in
\* the index.
C24_SignificantTerms == [][SignificantTermsAsDescribed]_vars

\* C24 witness: a document with more usable terms than extraction_count has
\* been given exactly extraction_count keywords
C24_Witness ==
    \E s \in Sessions :
        /\ pc[s] = "filter_stopwords" /\ extraction_method[s] = "elasticsearch"
        /\ Cardinality(TermsOf(s)) > extraction_count
        /\ Len(keywords[s]) = extraction_count
        /\ ScoreOf(s, keywords[s][1]) > ScoreOf(s, keywords[s][extraction_count])

\* C25: every tag created by an entry point of TagService (get_or_create_tag,
\* get_or_create_tags, attach_tags_to_document) has a name that is in
\* normalized form (a fixed point of normalize_tag_name) and is not a
\* stopword.
C25_CreatedNamesNormalized ==
    \A r \in tagRows :
        /\ normalize_tag_name(r.name) = r.name
        /\ ~is_stopword(r.name)

\* the similarities of a ranking, in the order of the candidates
SimilaritiesOf(s) ==
    [i \in DOMAIN unique_names[s] |->
        compute_similarity(encode(name[s]), encode(unique_names[s][i]))]

\* the result as described: the first candidate of the highest similarity
\* with its score, or (-1, 0.0) when there is no candidate or the highest
\* similarity is at or below the threshold
MostSimilarAsDescribed(s) ==
    LET sims == SimilaritiesOf(s)
        best == CHOOSE i \in DOMAIN sims : \A j \in DOMAIN sims :
                    sims[j] < sims[i] \/ (sims[j] = sims[i] /\ i <= j)
    IN  IF sims = <<>> \/ sims[best] <= 100 * similarity_threshold
        THEN <<-1, 0>>
        ELSE <<best - 1, sims[best]>>

\* C26: find_most_similar returns the index and the score of the candidate
\* with the highest cosine similarity to the query (the first one on ties);
\* when that similarity is at or below the threshold, or there is no
\* candidate, it returns (-1, 0.0).
C26_MostSimilarAboveThreshold ==
    \A s \in Sessions :
        (mode[s] = "rank" /\ pc[s] = "done")
            => batch_results[s] = MostSimilarAsDescribed(s)

\* C27: attach_tags_to_document never submits two associations with the
\* same (document_id, tag_id): when two keywords of a document resolve to
\* the same tag, the tag is attached once and no primary-key failure occurs.
C27_NoDuplicateAssociation ==
    \A s \in Sessions :
        /\ pc[s] = "bulk_create" =>
              \A i, j \in DOMAIN tags[s] :
                  tags[s][i].tag_id = tags[s][j].tag_id => i = j
        /\ exception[s] /= "IntegrityError document_tags.pkey"

\* every tag a resolve has returned is a row of the caller's view
ReturnedTagsExist ==
    \A s \in Sessions : \A i \in DOMAIN tags[s] :
        mode[s] \in {"upload", "single"} =>
            \E r \in View(s) : r.tag_id = tags[s][i].tag_id /\ r.name = tags[s][i].name

\* every committed association refers to a committed tag
AssociationsHaveTags ==
    \A a \in documentTagRows :
        a.txn = Committed =>
            \E r \in tagRows : r.tag_id = a.tag_id /\ r.txn = Committed

\* the re-fetch of a hit: the hit is returned when the caller's view has a
\* row of its tag_id, otherwise the name goes on to be created
HitUsedOnlyIfInView ==
    \A s \in Sessions :
        (pc[s] = "find_by_id" /\ pc'[s] /= pc[s]) =>
            IF \E r \in View(s) : r.tag_id = hit[s]
            THEN /\ Len(tags'[s]) = Len(tags[s]) + 1
                 /\ tags'[s][Len(tags'[s])].tag_id = hit[s]
                 /\ tags'[s][Len(tags'[s])].how = "similar"
            ELSE /\ pc'[s] = "create" /\ tags'[s] = tags[s]
                 /\ UNCHANGED <<dbVars, tagIndex>>

\* C28: a similarity hit from the shared Tag Index is used only if its
\* tag_id is found in the caller's own view of the primary store; a hit on
\* an orphaned entry, or on a tag a concurrent upload has mirrored but not
\* yet committed, is no match and a new tag is created.  Hence a resolve
\* never returns an absent tag, and no committed document-tag association
\* refers to a tag_id that is missing from the primary store.
C28_HitMustBeInView ==
    [](ReturnedTagsExist /\ AssociationsHaveTags) /\ [][HitUsedOnlyIfInView]_vars

\* C28 witness: a name of a batch is about to be created although the
\* batch search has returned a hit for it: the tag of the hit is not in the
\* upload's view
C28_Witness ==
    \E s \in Sessions :
        /\ mode[s] = "upload" /\ pc[s] = "create"
        /\ batch_results[s][idx[s]] /= <<>>
        /\ \A r \in View(s) : r.tag_id /= batch_results[s][idx[s]][1].tag_id
        /\ \E e \in tagIndex : e.tag_id = batch_results[s][idx[s]][1].tag_id

\* C29: in upload_document the compensating deletion of the blob runs only
\* if the transaction did not commit: in every reachable state a committed
\* document row still has its blob in the object store, also when a step
\* after the final commit (the refresh of the document) raises.
C29_CommittedDocumentKeepsBlob ==
    \A r \in documentRows :
        r.txn = Committed => r.document_id \in blobs

\* C30: after an upload that fails and is rolled back, the documents index
\* holds no entry for the rolled-back document, so that the corpus count of
\* later uploads counts only documents that exist in the primary store.
C30_NoIndexEntryOfRolledBackDocument ==
    /\ \A s \in Sessions :
          (/\ mode[s] = "upload" /\ pc[s] = "done" /\ outcome[s] = "error"
           /\ \A r \in documentRows : r.document_id /= document_id(s))
          => document_id(s) \notin documentIndex
    /\ \A d \in documentIndex : \E r \in documentRows : r.document_id = d

====
